---------------------------- MODULE Spec2Model ----------------------------
(***************************************************************************)
(* The roguebench command bus: CommandBus (engine/src/commands/bus.rs),    *)
(* CommandMeta / Envelope (core/src/commands.rs), CommandLog               *)
(* (engine/src/commands/log.rs) and the processor system of                *)
(* engine/tests/commands_integration.rs.                                   *)
(*                                                                         *)
(* Option<T> is modelled as a sequence of length 0 (None) or 1 (Some).     *)
(* Every queued Envelope is wrapped together with a ghost tag, the ordinal *)
(* of the enqueue call that created it; the tag is not program state and   *)
(* is read by the properties only.                                         *)
(***************************************************************************)
EXTENDS Integers, Sequences, FiniteSets, TLC

\* ------------------------------------------------------------- bounds
MaxEnq == 3      \* send / send_with_meta calls in one behaviour
MaxCmd == 2      \* TestCommand.value ranges over 1..MaxCmd
MaxDrains == 2   \* drain() calls in one behaviour
MaxTicks == 2    \* app.update() calls in one behaviour
MaxDirect == 2   \* direct log_success / log_failure calls in one behaviour
MaxLog == 3      \* entries a caller appends to the Log entry by entry
MaxIters == 2    \* ReplayIterators alive at once
MaxValidators == 2 \* validators registered for the command kind
MaxTime == 8 \* time in state up to which update is called

\* ------------------------------------------------- values of the tests
FrameA == 100    \* bus.rs, frame_tracking
FrameB == 101
ReplayCmd == 42  \* bus.rs, send_with_custom_meta
ReplayId == 1    \* commands_integration.rs, replay_from_log / log_persistence
ReplayTs == 1000
ReplayFrame == 1
NegValue == -5   \* validate.rs tests: TestCommand values and the maximum
MidValue == 50
BigValue == 150
MaxAllowed == 100
HealthStart == 2 \* Health.current of the spawned entity

None == <<>>
Some(x) == <<x>>

Commands == 1..MaxCmd
Frames == {0, FrameA, FrameB}
\* SystemTime::now() since the epoch in milliseconds, or 0 when
\* duration_since fails (bus.rs, unwrap_or(0))
Clock == {0, 2000}
\* ExecutionTimer::elapsed(), in milliseconds
Elapsed == {0, 7}
Paths == {"log.jsonl"}
Slots == 1..MaxIters
TestValues == {NegValue, MidValue, BigValue}
\* the metadata a caller hands to send_with_meta or to the Log: it repeats an
\* identity the bus assigns itself, with and without a frame
ReplayMetas ==
  {[id |-> ReplayId, timestamp_ms |-> ReplayTs, frame |-> f] :
     f \in {None, Some(ReplayFrame)}}

VARIABLES
  bus,        \* CommandBus: [queue, next_id, current_frame]
  draining,   \* a Drain iterator returned by drain() is alive
  drainRest,  \* the Envelopes the live Drain iterator has not yielded yet
  peeked,     \* what peek() returned, when the last call was peek(); None otherwise
  enq,        \* ghost: one record per send / send_with_meta call, in call order
  out,        \* ghost: every Envelope a Drain iterator yielded, with its drain
  drainNo,    \* ghost: number of drain() calls so far
  pendingAt,  \* ghost: tags pending when the last drain() was called
  enqAt,      \* ghost: number of enqueue calls before the last drain() call
  cleared,    \* ghost: tags discarded by clear()
  dropped,    \* ghost: tags dropped unyielded with a Drain iterator
  lastSet,    \* ghost: the value last passed to set_frame (0 before any call)
  frame_count,\* FrameCount resource of CommandBusPlugin
  updates,    \* ghost: number of app.update() calls so far
  health,     \* Health.current of the one Health entity, None before it is spawned
  log,        \* CommandLog: [entries, auto_persist, persist_path]
  events,     \* the CommandExecuted events written so far, in order
  files,      \* the file system: path -> [exists, lines]
  saved,      \* Result of the last save_to_file: "none" (no call yet), "ok", "err"
  loaded,     \* Result of the last load_from_file: [status, log]
  direct,     \* ghost: which of "log", "file", "loaded" may hold an entry that a
              \* caller, not the executor, passed to log_success / log_failure
  nDirect,    \* ghost: number of such calls so far
  made,       \* ghost: how the Log was constructed, what its backing file held
              \* then, the append calls on it since the last clear() and, of
              \* an auto-persisting Log, those before: [how, base, before, calls]
  iters,      \* the ReplayIterators alive: slot -> None or Some([pos, filter_successes, ...])
  yielded,    \* ghost: slot -> the pairs the iterator in the slot has returned
  fresh,      \* a second CommandBus that a replay of the Log is fed into, None before
  validators, \* Validators<C>.validators: the registered validators, in order
  checked,    \* the last validate / validate_all call and what it returned, None before
  queried,    \* the last query of the Log and what it returned, None before
  heal,       \* the CommandBus of a second command kind, with its ghosts
  wide,       \* a CommandBus with its counter at the full width of u64, None before
  sm,         \* the StateMachine component of one entity, None before it is made
  smLast,     \* the last update of the machine: [delta, pre, ret], None otherwise
  inspected   \* the last CommandResult asked about, with the answers, None before

busVars == <<bus, draining, drainRest, peeked, enq, out, drainNo, pendingAt,
             enqAt, cleared, dropped, lastSet>>
appVars == <<frame_count, updates, health, events>>
logVars == <<log, files, saved, loaded, direct, nDirect, made>>
replayVars == <<iters, yielded, fresh>>
validVars == <<validators, checked>>
lateVars == <<wide, sm, smLast, inspected>>
auxVars == <<replayVars, validVars, queried, heal, lateVars>>
vars == <<busVars, appVars, logVars, auxVars>>

\* ------------------------------------------------- core/src/commands.rs
CommandMetaNew(id, timestamp_ms) ==
  [id |-> id, timestamp_ms |-> timestamp_ms, frame |-> None]

with_frame(meta, frame) == [meta EXCEPT !.frame = Some(frame)]

EnvelopeNew(command, meta) == [command |-> command, meta |-> meta]

\* -------------------------------------- engine/src/commands/validate.rs
ValidationErrorField(command_type, field, reason) ==
  [command_type |-> command_type, reason |-> reason, field |-> Some(field)]
Ok == [ok |-> TRUE]
Err(e) == [ok |-> FALSE, err |-> e]

\* enum CommandResult<C>: Success(C::Output), Failed(C::Error),
\* Rejected(ValidationError)
CommandResultSuccess(output) == [kind |-> "Success", output |-> output]
CommandResultFailed(error) == [kind |-> "Failed", error |-> error]
CommandResultRejected(error) == [kind |-> "Rejected", error |-> error]

\* matches!(self, CommandResult::Success(_)) and the like
is_success(r) == r.kind = "Success"
is_failed_Loose(r) == r.kind # "Success"
is_failed(r) == r.kind = "Failed"
is_rejected(r) == r.kind = "Rejected"
\* CommandResult::ok
result_ok(r) == IF r.kind = "Success" THEN Some(r.output) ELSE None

\* the validators of the tests: PositiveValidator, MaxValueValidator { max }
\* and the closure of fn_validator
PositiveValidator == [kind |-> "positive"]
MaxValueValidator(max) == [kind |-> "max", max |-> max]
EvenValidator == [kind |-> "even"]
TestValidators == {PositiveValidator, MaxValueValidator(MaxAllowed), EvenValidator}

\* Validator::validate of one validator
validator_validate(v, command) ==
  CASE v.kind = "positive" ->
         IF command <= 0
         THEN Err(ValidationErrorField("test", "value", "must be positive"))
         ELSE Ok
    [] v.kind = "max" ->
         IF command > v.max
         THEN Err(ValidationErrorField("test", "value", <<"must be <=", v.max>>))
         ELSE Ok
    [] v.kind = "even" ->
         IF command % 2 # 0
         THEN Err(ValidationErrorField("test", "value", "must be even"))
         ELSE Ok

ValidatorsNew == <<>>
validators_add(vs, v) == Append(vs, v)

validate_Last(vs, command) ==
  LET bad == {i \in 1..Len(vs) : ~validator_validate(vs[i], command).ok}
  IN [result |-> IF bad = {} THEN Ok
                 ELSE validator_validate(
                        vs[CHOOSE i \in bad : \A j \in bad : j <= i], command),
      ran |-> vs]
RECURSIVE validate(_, _)
\* Validators::validate: `validator.validate(command)?` for each validator in
\* turn; ran (ghost) lists the validators that were called
validate(vs, command) ==
  IF vs = <<>> THEN [result |-> Ok, ran |-> <<>>]
  ELSE LET r == validator_validate(Head(vs), command)
       IN IF ~r.ok THEN [result |-> r, ran |-> <<Head(vs)>>]
          ELSE LET rest == validate(Tail(vs), command)
               IN [result |-> rest.result, ran |-> <<Head(vs)>> \o rest.ran]

validate_all_First(vs, command) ==
  LET r == validate(vs, command)
  IN [errors |-> IF r.result.ok THEN <<>> ELSE <<r.result.err>>, ran |-> r.ran]
RECURSIVE validate_all(_, _)
\* Validators::validate_all: filter_map(|v| v.validate(command).err()).collect()
validate_all(vs, command) ==
  IF vs = <<>> THEN [errors |-> <<>>, ran |-> <<>>]
  ELSE LET r == validator_validate(Head(vs), command)
           rest == validate_all(Tail(vs), command)
       IN [errors |-> (IF r.ok THEN <<>> ELSE <<r.err>>) \o rest.errors,
           ran |-> <<Head(vs)>> \o rest.ran]

\* ------------------------------------------- engine/src/commands/bus.rs
BusNew_Zero == [queue |-> <<>>, next_id |-> 0, current_frame |-> 0]
BusNew == [queue |-> <<>>, next_id |-> 1, current_frame |-> 0]

Tagged(env, tag) == [env |-> env, tag |-> tag]

\* the identity send returns
send_ret_Post(b) == b.next_id + 1
send_ret(b) == b.next_id

send_meta_FrameCount(b, timestamp_ms) ==
  with_frame(CommandMetaNew(b.next_id, timestamp_ms), frame_count)
\* the metadata send builds
send_meta(b, timestamp_ms) ==
  with_frame(CommandMetaNew(b.next_id, timestamp_ms), b.current_frame)

send_Validated(b, command, timestamp_ms, tag) ==
  IF validate(validators, command).result.ok
  THEN [b EXCEPT !.queue = Append(@, Tagged(EnvelopeNew(command, send_meta(b, timestamp_ms)), tag)),
                 !.next_id = @ + 1]
  ELSE b
send_SharedCounter(b, command, timestamp_ms, tag) ==
  LET sent == (bus.next_id - 1)
                + (IF heal = None THEN 0 ELSE heal[1].bus.next_id - 1)
      meta == with_frame(CommandMetaNew(sent + 1, timestamp_ms), b.current_frame)
  IN [b EXCEPT !.queue = Append(@, Tagged(EnvelopeNew(command, meta), tag)),
               !.next_id = @ + 1]
send_NoAdvance(b, command, timestamp_ms, tag) ==
  [b EXCEPT !.queue = Append(@, Tagged(EnvelopeNew(command, send_meta(b, timestamp_ms)), tag))]
\* the bus after send
send(b, command, timestamp_ms, tag) ==
  [b EXCEPT !.queue = Append(@, Tagged(EnvelopeNew(command, send_meta(b, timestamp_ms)), tag)),
            !.next_id = @ + 1]

\* next_id at its width: a u64 as four limbs of 16 bits, the most significant
\* first, so that no number in the model leaves 32 bits
U64Limb == 2^16
U64(n) == <<0, 0, 0, n>>
U64Max == <<U64Limb - 1, U64Limb - 1, U64Limb - 1, U64Limb - 1>>
U64Succ(x) ==
  IF x[4] < U64Limb - 1 THEN <<x[1], x[2], x[3], x[4] + 1>>
  ELSE IF x[3] < U64Limb - 1 THEN <<x[1], x[2], x[3] + 1, 0>>
  ELSE IF x[2] < U64Limb - 1 THEN <<x[1], x[2] + 1, 0, 0>>
  ELSE <<x[1] + 1, 0, 0, 0>>
\* the builds of the crate: with overflow checks (debug) and without (release)
Builds == {"overflow-checks", "wrapping"}

\* send with next_id a u64: `self.next_id += 1` panics at u64::MAX in a build
\* with overflow checks, before anything is queued, and wraps to 0 in one
\* without; the result is [panic, bus, ret]
send_u64(b, command, timestamp_ms, build) ==
  IF b.next_id = U64Max /\ build = "overflow-checks"
  THEN [panic |-> TRUE, bus |-> b, ret |-> None]
  ELSE [panic |-> FALSE,
        bus |-> [b EXCEPT
          !.queue = Append(@, EnvelopeNew(command,
                       with_frame(CommandMetaNew(b.next_id, timestamp_ms),
                                  b.current_frame))),
          !.next_id = IF @ = U64Max THEN U64(0) ELSE U64Succ(@)],
        ret |-> Some(b.next_id)]

send_with_meta_Advance(b, command, meta, tag) ==
  [b EXCEPT !.queue = Append(@, Tagged(EnvelopeNew(command, meta), tag)),
            !.next_id = @ + 1]
send_with_meta_Stamp(b, command, meta, tag) ==
  [b EXCEPT !.queue = Append(@, Tagged(EnvelopeNew(command, with_frame(meta, b.current_frame)), tag))]
send_with_meta(b, command, meta, tag) ==
  [b EXCEPT !.queue = Append(@, Tagged(EnvelopeNew(command, meta), tag))]

\* drain(): self.queue.drain(..) moves the whole queue into the iterator ...
drain_range_Rev(q) == [i \in 1..Len(q) |-> q[Len(q) + 1 - i]]
drain_range(q) == q
\* ... and leaves the queue empty, also when the iterator is dropped or
\* leaked before it is exhausted
drain_left_Lazy(q) == q
drain_left(q) == <<>>

peek_Last(b) ==
  IF b.queue = <<>> THEN None ELSE Some(b.queue[Len(b.queue)].env)
peek(b) == IF b.queue = <<>> THEN None ELSE Some(Head(b.queue).env)

set_frame_Restamp(b, frame) ==
  [b EXCEPT !.current_frame = frame,
            !.queue = [i \in 1..Len(@) |->
                         [@[i] EXCEPT !.env.meta = with_frame(@, frame)]]]
set_frame(b, frame) == [b EXCEPT !.current_frame = frame]

clear_KeepHead(b) ==
  [b EXCEPT !.queue = IF @ = <<>> THEN <<>> ELSE <<Head(@)>>]
clear_Reset(b) == [b EXCEPT !.queue = <<>>, !.next_id = 1]
clear(b) == [b EXCEPT !.queue = <<>>]

\* ------------------------------------------- engine/src/commands/log.rs
LogEntrySuccess(command, meta) ==
  [command |-> command, meta |-> meta, succeeded |-> TRUE]
LogEntryFailed_Ok(command, meta) ==
  [command |-> command, meta |-> meta, succeeded |-> TRUE]
LogEntryFailed(command, meta) ==
  [command |-> command, meta |-> meta, succeeded |-> FALSE]

LogNew == [entries |-> <<>>, auto_persist |-> FALSE, persist_path |-> None]

\* CommandLog::with_persistence(path)
with_persistence(path) ==
  [entries |-> <<>>, auto_persist |-> TRUE, persist_path |-> Some(path)]

\* serde_json text, as the tree of its tokens
JNull == [t |-> "null"]
JNum(n) == [t |-> "num", v |-> n]
JBool(b) == [t |-> "bool", v |-> b]

option_to_json_Zero(o) == IF o = None THEN JNum(0) ELSE JNum(o[1])
option_to_json(o) == IF o = None THEN JNull ELSE JNum(o[1])
\* #[derive(Serialize)] of LogEntry<C>, CommandMeta, CommandId and of a
\* command struct with the one field `value`
to_string(entry) ==
  [command |-> [value |-> JNum(entry.command)],
   meta |-> [id |-> JNum(entry.meta.id),
             timestamp_ms |-> JNum(entry.meta.timestamp_ms),
             frame |-> option_to_json(entry.meta.frame)],
   succeeded |-> JBool(entry.succeeded)]

IsJNat(j) == j.t = "num" /\ j.v >= 0
\* a line is a serialized LogEntry: an object with these fields of these types
IsEntryLine(line) ==
  /\ DOMAIN line = {"command", "meta", "succeeded"}
  /\ DOMAIN line.command = {"value"}
  /\ line.command.value.t = "num"
  /\ DOMAIN line.meta = {"id", "timestamp_ms", "frame"}
  /\ IsJNat(line.meta.id)
  /\ IsJNat(line.meta.timestamp_ms)
  /\ (line.meta.frame = JNull \/ IsJNat(line.meta.frame))
  /\ line.succeeded.t = "bool"
\* #[derive(Deserialize)]: Some(entry), or None for a serde_json error
from_str(line) ==
  IF ~IsEntryLine(line) THEN None
  ELSE Some([command |-> line.command.value.v,
             meta |-> [id |-> line.meta.id.v,
                       timestamp_ms |-> line.meta.timestamp_ms.v,
                       frame |-> IF line.meta.frame = JNull THEN None
                                 ELSE Some(line.meta.frame.v)],
             succeeded |-> line.succeeded.v])

NoFile == [exists |-> FALSE, lines |-> <<>>]
file_append_Trunc(f, line) == [exists |-> TRUE, lines |-> <<line>>]
\* OpenOptions::new().create(true).append(true), then writeln!
file_append(f, line) == [exists |-> TRUE, lines |-> Append(f.lines, line)]

log_push_Front(l, entry) == [l EXCEPT !.entries = <<entry>> \o @]
\* self.entries.push(entry)
log_push(l, entry) == [l EXCEPT !.entries = Append(@, entry)]

append_Rewrite(w, entry, io_ok) ==
  LET l == log_push(w.log, entry)
  IN [log |-> l,
      files |-> IF l.auto_persist /\ l.persist_path # None /\ io_ok
                THEN [w.files EXCEPT ![l.persist_path[1]] =
                        [exists |-> TRUE,
                         lines |-> [i \in 1..Len(l.entries) |->
                                      to_string(l.entries[i])]]]
                ELSE w.files]
append_Bail(w, entry, io_ok) ==
  IF w.log.auto_persist /\ w.log.persist_path # None /\ ~io_ok THEN w
  ELSE LET l == log_push(w.log, entry)
       IN [log |-> l,
           files |-> IF l.auto_persist /\ l.persist_path # None
                     THEN [w.files EXCEPT ![l.persist_path[1]] =
                             file_append(@, to_string(entry))]
                     ELSE w.files]
\* append: w is the pair [log, files]; io_ok tells whether the backing file
\* could be opened and written (a failure is ignored)
append(w, entry, io_ok) ==
  LET l == log_push(w.log, entry)
  IN [log |-> l,
      files |-> IF l.auto_persist /\ l.persist_path # None /\ io_ok
                THEN [w.files EXCEPT ![l.persist_path[1]] =
                        file_append(@, to_string(l.entries[Len(l.entries)]))]
                ELSE w.files]

log_success(w, command, meta, io_ok) ==
  append(w, LogEntrySuccess(command, meta), io_ok)
log_failure(w, command, meta, io_ok) ==
  append(w, LogEntryFailed(command, meta), io_ok)

log_clear(l) == [l EXCEPT !.entries = <<>>]

get_by_id_Last(l, id) ==
  LET hits == {i \in 1..Len(l.entries) : l.entries[i].meta.id = id}
  IN IF hits = {} THEN None
     ELSE Some(l.entries[CHOOSE i \in hits : \A j \in hits : j <= i])
\* self.entries.iter().find(|e| e.meta.id == id)
get_by_id(l, id) ==
  LET hits == SelectSeq(l.entries, LAMBDA e : e.meta.id = id)
  IN IF hits = <<>> THEN None ELSE Some(Head(hits))

\* self.entries.iter().filter(|e| e.succeeded), collected
successes(l) == SelectSeq(l.entries, LAMBDA e : e.succeeded)

failures_All(l) == l.entries
\* self.entries.iter().filter(|e| !e.succeeded), collected
failures(l) == SelectSeq(l.entries, LAMBDA e : ~e.succeeded)

in_frame_range_Open(l, start, end) ==
  SelectSeq(l.entries,
            LAMBDA e : IF e.meta.frame = None THEN FALSE
                       ELSE e.meta.frame[1] >= start /\ e.meta.frame[1] < end)
\* filter(|e| e.meta.frame.map(|f| f >= start && f <= end).unwrap_or(false))
in_frame_range(l, start, end) ==
  SelectSeq(l.entries,
            LAMBDA e : IF e.meta.frame = None THEN FALSE
                       ELSE e.meta.frame[1] >= start /\ e.meta.frame[1] <= end)

save_to_file_Append(l, f, io, done) ==
  IF io = "create" THEN [result |-> "err", file |-> f]
  ELSE IF io = "write"
    THEN [result |-> "err",
          file |-> [exists |-> TRUE,
                    lines |-> f.lines \o [i \in 1..done |-> to_string(l.entries[i])]]]
  ELSE [result |-> "ok",
        file |-> [exists |-> TRUE,
                  lines |-> f.lines \o
                    [i \in 1..Len(l.entries) |-> to_string(l.entries[i])]]]
\* save_to_file: File::create truncates; io is "ok", "create" (File::create
\* fails) or "write" (a write or the flush fails after `done` lines)
save_to_file(l, f, io, done) ==
  IF io = "create" THEN [result |-> "err", file |-> f]
  ELSE IF io = "write"
    THEN [result |-> "err",
          file |-> [exists |-> TRUE,
                    lines |-> [i \in 1..done |-> to_string(l.entries[i])]]]
  ELSE [result |-> "ok",
        file |-> [exists |-> TRUE,
                  lines |-> [i \in 1..Len(l.entries) |-> to_string(l.entries[i])]]]

load_from_file_Skip(f, io_ok) ==
  IF ~f.exists \/ ~io_ok THEN [status |-> "err", log |-> LogNew]
  ELSE LET good == SelectSeq(f.lines, LAMBDA line : from_str(line) # None)
       IN [status |-> "ok",
           log |-> [entries |-> [i \in 1..Len(good) |-> from_str(good[i])[1]],
                    auto_persist |-> FALSE,
                    persist_path |-> None]]
load_from_file_Persist(f, io_ok) ==
  IF ~f.exists \/ ~io_ok THEN [status |-> "err", log |-> LogNew]
  ELSE IF \E i \in 1..Len(f.lines) : from_str(f.lines[i]) = None
    THEN [status |-> "err", log |-> LogNew]
  ELSE [status |-> "ok",
        log |-> [entries |-> [i \in 1..Len(f.lines) |-> from_str(f.lines[i])[1]],
                 auto_persist |-> TRUE,
                 persist_path |-> Some(CHOOSE p \in Paths : TRUE)]]
\* load_from_file: io_ok tells whether the file could be opened and read
load_from_file(f, io_ok) ==
  IF ~f.exists \/ ~io_ok THEN [status |-> "err", log |-> LogNew]
  ELSE IF \E i \in 1..Len(f.lines) : from_str(f.lines[i]) = None
    THEN [status |-> "err", log |-> LogNew]
  ELSE [status |-> "ok",
        log |-> [entries |-> [i \in 1..Len(f.lines) |-> from_str(f.lines[i])[1]],
                 auto_persist |-> FALSE,
                 persist_path |-> None]]

\* fn make_meta(id) of the tests of log.rs
make_meta(id) == with_frame(CommandMetaNew(id, ReplayTs), id)

\* ReplayIterator: pos counts the entries its slice iterator has passed;
\* done (ghost) tells that next() has returned None, since (ghost) is pos
\* at the successes_only call
ReplayIteratorNew ==
  [pos |-> 0, filter_successes |-> FALSE, done |-> FALSE, since |-> 0]

successes_only_Noop(it) == it
successes_only(it) ==
  IF it.filter_successes THEN it
  ELSE [it EXCEPT !.filter_successes = TRUE, !.since = it.pos]

\* Some((entry.command.clone(), entry.meta.clone()))
replay_item_NoFrame(entry) ==
  Some(<<entry.command, CommandMetaNew(entry.meta.id, entry.meta.timestamp_ms)>>)
replay_item(entry) == Some(<<entry.command, entry.meta>>)

RECURSIVE replay_next(_, _)
\* Iterator::next of ReplayIterator over the entries of the borrowed Log:
\* [it, item], item None at the end
replay_next(it, entries) ==
  IF it.pos >= Len(entries) THEN [it |-> [it EXCEPT !.done = TRUE], item |-> None]
  ELSE LET entry == entries[it.pos + 1]
           step == [it EXCEPT !.pos = @ + 1]
       IN IF step.filter_successes /\ ~entry.succeeded
          THEN replay_next(step, entries)
          ELSE [it |-> step, item |-> replay_item(entry)]

\* CommandLog::replay
replay(l) == ReplayIteratorNew

\* ---------------------------------------- engine/src/commands/events.rs
CommandExecutedSuccess(command, output, meta) ==
  [command |-> command, result |-> CommandResultSuccess(output),
   meta |-> meta, execution_time |-> 0]
CommandExecutedFailed(command, error, meta) ==
  [command |-> command, result |-> CommandResultFailed(error),
   meta |-> meta, execution_time |-> 0]
with_execution_time(event, time) == [event EXCEPT !.execution_time = time]
\* CommandExecuted::is_success, is_failed, id
executed_is_success(event) == is_success(event.result)
executed_is_failed(event) == is_failed(event.result)
executed_id(event) == event.meta.id

\* ------------------- engine/tests/commands_integration.rs, the executor
\* the body of the loop of process_damage_commands for one drained Envelope;
\* st is [health, w, events], the command's value is DealDamage.amount
process_one(st, env, elapsed, io_ok) ==
  IF st.health # None
  THEN LET current == st.health[1] - env.command
           overkill == current < 0
           left == IF overkill THEN 0 ELSE current
       IN [health |-> Some(left),
           w |-> log_success(st.w, env.command, env.meta, io_ok),
           events |-> Append(st.events,
              with_execution_time(
                CommandExecutedSuccess(env.command,
                  [final_health |-> left, overkill |-> overkill], env.meta),
                elapsed))]
  ELSE [health |-> st.health,
        w |-> log_failure(st.w, env.command, env.meta, io_ok),
        events |-> Append(st.events,
           with_execution_time(
             CommandExecutedFailed(env.command, "Target not found", env.meta),
             elapsed))]

RECURSIVE process_damage_commands(_, _, _, _)
\* for envelope in bus.drain() { ... }: the drained Envelopes, head first
process_damage_commands(st, envs, elapsed, io_ok) ==
  IF envs = <<>> THEN st
  ELSE process_damage_commands(
         process_one(st, Head(envs).env, Head(elapsed), Head(io_ok)),
         Tail(envs), Tail(elapsed), Tail(io_ok))

\* ------------------------------------------ engine/src/commands/mod.rs
\* FrameCount::default()
FrameCountDefault == 0

increment_frame_count_PerKind(fc) == fc + 1 + (IF heal = None THEN 0 ELSE 1)
\* fn increment_frame_count: frame_count.0 += 1
increment_frame_count(fc) == fc + 1

\* the command kind HealTarget of the integration tests
HealTarget(amount) == [target_id |-> 1, amount |-> amount]

\* app.register_command::<HealTarget>(): init_resource of its CommandBus;
\* rets, lastSet and gone are ghosts: what its send calls returned, the value
\* last passed to its set_frame, how many of its Envelopes left its queue
HealBusNew == [bus |-> BusNew, rets |-> <<>>, lastSet |-> 0, gone |-> 0]

\* ---------------------------------------------------------------- ghost
\* the Log as new() makes it, before any append
MadeNew == [how |-> "new", base |-> <<>>, before |-> <<>>, calls |-> <<>>]
Called(m, entry, io_ok) ==
  [m EXCEPT !.calls = Append(@, [entry |-> entry, ok |-> io_ok])]
Range(s) == {s[i] : i \in 1..Len(s)}
Tags(s) == [i \in 1..Len(s) |-> s[i].tag]
TagSet(s) == {s[i].tag : i \in 1..Len(s)}
YieldedTags == {out[i].item.tag : i \in 1..Len(out)}
Gone == YieldedTags \cup cleared \cup dropped

\* ---------------------------------------------------------------- Init
Init ==
  /\ bus = BusNew
  /\ draining = FALSE
  /\ drainRest = <<>>
  /\ peeked = None
  /\ enq = <<>>
  /\ out = <<>>
  /\ drainNo = 0
  /\ pendingAt = {}
  /\ enqAt = 0
  /\ cleared = {}
  /\ dropped = {}
  /\ lastSet = 0
  /\ frame_count = FrameCountDefault
  /\ updates = 0
  /\ health = None
  /\ log = LogNew
  /\ events = <<>>
  /\ files = [p \in Paths |-> NoFile]
  /\ saved = "none"
  /\ loaded = [status |-> "none", log |-> LogNew]
  /\ direct = {}
  /\ nDirect = 0
  /\ made = MadeNew
  /\ iters = [k \in Slots |-> None]
  /\ yielded = [k \in Slots |-> <<>>]
  /\ fresh = None
  /\ validators = <<>>
  /\ checked = None
  /\ queried = None
  /\ heal = None
  /\ wide = None
  /\ sm = None
  /\ smLast = None
  /\ inspected = None

\* ------------------------------------------------------------- actions
\* Every method of the bus takes &self or &mut self, and the iterator
\* returned by drain() borrows the bus mutably: no method runs while it lives.
Send(command, timestamp_ms) ==
  /\ ~draining
  /\ Len(enq) < MaxEnq
  /\ bus' = send(bus, command, timestamp_ms, Len(enq) + 1)
  /\ enq' = Append(enq, [via |-> "send", command |-> command, ret |-> send_ret(bus),
                         meta |-> None, lastSet |-> lastSet])
  /\ peeked' = None
  /\ UNCHANGED <<draining, drainRest, out, drainNo, pendingAt, enqAt,
                 cleared, dropped, lastSet>>
  /\ UNCHANGED <<appVars, logVars, auxVars>>

SendWithMeta(command, meta) ==
  /\ ~draining
  /\ Len(enq) < MaxEnq
  /\ bus' = send_with_meta(bus, command, meta, Len(enq) + 1)
  /\ enq' = Append(enq, [via |-> "meta", command |-> command, ret |-> 0,
                         meta |-> Some(meta), lastSet |-> 0])
  /\ peeked' = None
  /\ UNCHANGED <<draining, drainRest, out, drainNo, pendingAt, enqAt,
                 cleared, dropped, lastSet>>
  /\ UNCHANGED <<appVars, logVars, auxVars>>

Drain ==
  /\ ~draining
  /\ drainNo < MaxDrains
  /\ drainRest' = drain_range(bus.queue)
  /\ bus' = [bus EXCEPT !.queue = drain_left(@)]
  /\ draining' = TRUE
  /\ drainNo' = drainNo + 1
  /\ pendingAt' = (1..Len(enq)) \ Gone
  /\ enqAt' = Len(enq)
  /\ peeked' = None
  /\ UNCHANGED <<enq, out, cleared, dropped, lastSet>>
  /\ UNCHANGED <<appVars, logVars, auxVars>>

\* Iterator::next on the live Drain iterator
DrainNext ==
  /\ draining
  /\ drainRest # <<>>
  /\ out' = Append(out, [d |-> drainNo, item |-> Head(drainRest)])
  /\ drainRest' = Tail(drainRest)
  /\ peeked' = None
  /\ UNCHANGED <<bus, draining, enq, drainNo, pendingAt, enqAt, cleared,
                 dropped, lastSet>>
  /\ UNCHANGED <<appVars, logVars, auxVars>>

\* the Drain iterator goes out of scope, exhausted or not
DrainDrop ==
  /\ draining
  /\ dropped' = dropped \cup TagSet(drainRest)
  /\ drainRest' = <<>>
  /\ draining' = FALSE
  /\ peeked' = None
  /\ UNCHANGED <<bus, enq, out, drainNo, pendingAt, enqAt, cleared, lastSet>>
  /\ UNCHANGED <<appVars, logVars, auxVars>>

Peek ==
  /\ ~draining
  /\ peeked' = peek(bus)
  /\ UNCHANGED <<bus, draining, drainRest, enq, out, drainNo, pendingAt, enqAt,
                 cleared, dropped, lastSet>>
  /\ UNCHANGED <<appVars, logVars, auxVars>>

SetFrame(frame) ==
  /\ ~draining
  /\ bus' = set_frame(bus, frame)
  /\ lastSet' = frame
  /\ peeked' = None
  /\ UNCHANGED <<draining, drainRest, enq, out, drainNo, pendingAt, enqAt,
                 cleared, dropped>>
  /\ UNCHANGED <<appVars, logVars, auxVars>>

Clear ==
  /\ ~draining
  /\ cleared' = cleared \cup TagSet(bus.queue)
  /\ bus' = clear(bus)
  /\ peeked' = None
  /\ UNCHANGED <<draining, drainRest, enq, out, drainNo, pendingAt, enqAt,
                 dropped, lastSet>>
  /\ UNCHANGED <<appVars, logVars, auxVars>>

Next ==
  \/ \E c \in Commands, ts \in Clock : Send(c, ts)
  \/ \E m \in ReplayMetas : SendWithMeta(ReplayCmd, m)
  \/ Drain
  \/ DrainNext
  \/ DrainDrop
  \/ Peek
  \/ \E n \in Frames : SetFrame(n)
  \/ Clear

Spec == Init /\ [][Next]_vars

\* ------------------------------------------------ the application loop
\* app.world_mut().spawn(Health { current, max })
SpawnHealth ==
  /\ ~draining
  /\ health = None
  /\ health' = Some(HealthStart)
  /\ UNCHANGED <<busVars, frame_count, updates, events, logVars, auxVars>>

\* whether an auto-persist append reaches the file is the environment's choice
IoChoices(l) == IF l.auto_persist THEN BOOLEAN ELSE {TRUE}

\* app.update(): increment_frame_count in First, then process_damage_commands
\* in Update, which drains the bus and handles every Envelope; `times` is
\* what the ExecutionTimer may measure
AppUpdate(times) ==
  /\ ~draining
  /\ frame_count < MaxTicks
  /\ frame_count' = increment_frame_count(frame_count)
  /\ updates' = updates + 1
  /\ LET envs == drain_range(bus.queue)
         n == Len(envs)
     IN \E elapsed \in [1..n -> times], io_ok \in [1..n -> IoChoices(log)] :
          LET st == process_damage_commands(
                      [health |-> health, w |-> [log |-> log, files |-> files],
                       events |-> events],
                      envs, elapsed, io_ok)
          IN /\ health' = st.health
             /\ log' = st.w.log
             /\ files' = st.w.files
             /\ events' = st.events
             /\ made' = [made EXCEPT !.calls = @ \o
                          [i \in 1..n |->
                             [entry |-> st.w.log.entries[Len(log.entries) + i],
                              ok |-> io_ok[i]]]]
             /\ out' = out \o [i \in 1..n |-> [d |-> drainNo + 1, item |-> envs[i]]]
  /\ bus' = [bus EXCEPT !.queue = drain_left(@)]
  /\ drainNo' = drainNo + 1
  /\ pendingAt' = (1..Len(enq)) \ Gone
  /\ enqAt' = Len(enq)
  /\ peeked' = None
  /\ UNCHANGED <<draining, drainRest, enq, cleared, dropped, lastSet>>
  /\ UNCHANGED <<saved, loaded, direct, nDirect, auxVars>>

NextExec ==
  \/ \E c \in Commands, ts \in Clock : Send(c, ts)
  \/ SpawnHealth
  \/ AppUpdate(Elapsed)

SpecExec == Init /\ [][NextExec]_vars

\* the executor of a bus whose caller also discards what is pending
NextExecClear ==
  \/ \E c \in Commands : Send(c, 2000)
  \/ SetFrame(FrameA)
  \/ Clear
  \/ SpawnHealth
  \/ AppUpdate({0})

SpecExecClear == Init /\ [][NextExecClear]_vars

\* ------------------------------------- the CommandLog, called directly
\* a ReplayIterator holds a shared borrow of the Log it was made from, and so
\* does what a query of the Log returned: no &mut self method of the Log runs
\* while one is alive
LogBorrowed ==
  \/ \E k \in Slots : iters[k] # None
  \/ fresh # None /\ fresh[1].it # None
  \/ queried # None

LogSuccess(command, meta) ==
  /\ ~LogBorrowed
  /\ nDirect < MaxDirect
  /\ nDirect' = nDirect + 1
  /\ \E io_ok \in IoChoices(log) :
       LET w == log_success([log |-> log, files |-> files], command, meta, io_ok)
       IN /\ log' = w.log /\ files' = w.files
          /\ made' = Called(made, LogEntrySuccess(command, meta), io_ok)
  /\ direct' = direct \cup {"log"}
  /\ UNCHANGED <<busVars, appVars, saved, loaded, auxVars>>

LogFailure(command, meta) ==
  /\ ~LogBorrowed
  /\ nDirect < MaxDirect
  /\ nDirect' = nDirect + 1
  /\ \E io_ok \in IoChoices(log) :
       LET w == log_failure([log |-> log, files |-> files], command, meta, io_ok)
       IN /\ log' = w.log /\ files' = w.files
          /\ made' = Called(made, LogEntryFailed(command, meta), io_ok)
  /\ direct' = direct \cup {"log"}
  /\ UNCHANGED <<busVars, appVars, saved, loaded, auxVars>>

LogClear ==
  /\ ~LogBorrowed
  /\ log' = log_clear(log)
  /\ made' = [made EXCEPT
                !.before = IF log.auto_persist THEN @ \o made.calls ELSE @,
                !.calls = <<>>]
  /\ direct' = direct \ {"log"}
  /\ UNCHANGED <<busVars, appVars, files, saved, loaded, nDirect, auxVars>>

SaveToFile(path) ==
  /\ \E io \in {"ok", "create", "write"}, done \in 0..Len(log.entries) :
       /\ io = "write" => done < Len(log.entries)
       /\ io # "write" => done = 0
       /\ LET r == save_to_file(log, files[path], io, done)
          IN /\ saved' = r.result
             /\ files' = [files EXCEPT ![path] = r.file]
             /\ direct' = IF io = "create" THEN direct
                          ELSE IF "log" \in direct /\ r.file.lines # <<>>
                            THEN direct \cup {"file"}
                            ELSE direct \ {"file"}
  /\ UNCHANGED <<busVars, appVars, log, loaded, nDirect, made, auxVars>>

LoadFromFile(path) ==
  /\ \E io_ok \in BOOLEAN :
       loaded' = load_from_file(files[path], io_ok)
  /\ direct' = IF loaded'.status = "ok" /\ "file" \in direct
               THEN direct \cup {"loaded"} ELSE direct \ {"loaded"}
  /\ UNCHANGED <<busVars, appVars, log, files, saved, nDirect, made, auxVars>>

\* the executor of a bus that only send feeds, next to callers that write
\* to the same Log directly, clear it, save it and load it
NextExecLog ==
  \/ Send(1, 2000)
  \/ AppUpdate({0})
  \/ \E m \in ReplayMetas : LogSuccess(ReplayCmd, m)
  \/ \E m \in ReplayMetas : LogFailure(ReplayCmd, m)
  \/ LogClear
  \/ \E p \in Paths : SaveToFile(p)
  \/ \E p \in Paths : LoadFromFile(p)

SpecExecLog == Init /\ [][NextExecLog]_vars

\* ------------------------------------------------ replaying the Log
\* log.append(entry) by a caller that numbers its commands as the tests do:
\* the n-th entry carries the value n and the Metadata of identity n, with
\* or without a frame
LogAppend ==
  /\ ~LogBorrowed
  /\ Len(log.entries) < MaxLog
  /\ LET n == Len(log.entries) + 1
     IN \E ok \in BOOLEAN, m \in {make_meta(n), CommandMetaNew(n, ReplayTs)},
           io_ok \in IoChoices(log) :
          LET entry == IF ok THEN LogEntrySuccess(n, m) ELSE LogEntryFailed(n, m)
              w == append([log |-> log, files |-> files], entry, io_ok)
          IN /\ log' = w.log /\ files' = w.files
             /\ made' = Called(made, entry, io_ok)
  /\ direct' = direct \cup {"log"}
  /\ UNCHANGED <<busVars, appVars, saved, loaded, nDirect, auxVars>>

\* let it = log.replay()
Replay(k) ==
  /\ iters[k] = None
  /\ iters' = [iters EXCEPT ![k] = Some(replay(log))]
  /\ yielded' = [yielded EXCEPT ![k] = <<>>]
  /\ UNCHANGED <<busVars, appVars, logVars, fresh, validVars, queried, heal, lateVars>>

\* it = it.successes_only()
SuccessesOnly(k) ==
  /\ iters[k] # None
  /\ iters' = [iters EXCEPT ![k] = Some(successes_only(iters[k][1]))]
  /\ UNCHANGED <<busVars, appVars, logVars, yielded, fresh, validVars, queried, heal, lateVars>>

\* it.next()
ReplayNext(k) ==
  /\ iters[k] # None
  /\ LET r == replay_next(iters[k][1], log.entries)
     IN /\ iters' = [iters EXCEPT ![k] = Some(r.it)]
        /\ yielded' = [yielded EXCEPT ![k] = @ \o r.item]
  /\ UNCHANGED <<busVars, appVars, logVars, fresh, validVars, queried, heal, lateVars>>

\* the iterator goes out of scope
ReplayDrop(k) ==
  /\ iters[k] # None
  /\ iters' = [iters EXCEPT ![k] = None]
  /\ yielded' = [yielded EXCEPT ![k] = <<>>]
  /\ UNCHANGED <<busVars, appVars, logVars, fresh, validVars, queried, heal, lateVars>>

NextReplay ==
  \/ LogAppend
  \/ LogClear
  \/ \E k \in Slots : Replay(k)
  \/ \E k \in Slots : SuccessesOnly(k)
  \/ \E k \in Slots : ReplayNext(k)
  \/ \E k \in Slots : ReplayDrop(k)

SpecReplay == Init /\ [][NextReplay]_vars

\* ------------------------------------- replaying the Log into a new bus
\* let mut fresh = CommandBus::new(); for (c, m) in log.replay() { ... };
\* src (ghost) is the Log the replay was started on
ReplayStart ==
  /\ fresh = None
  /\ fresh' = Some([bus |-> BusNew, it |-> Some(replay(log)), src |-> log.entries,
                    drained |-> FALSE, out |-> <<>>, rets |-> <<>>])
  /\ UNCHANGED <<busVars, appVars, logVars, iters, yielded, validVars, queried, heal, lateVars>>

\* one turn of the loop: fresh.send_with_meta(c, m) for the next pair, or
\* the end of the loop, where the iterator is dropped
ReplayFeed ==
  /\ fresh # None /\ fresh[1].it # None
  /\ LET f == fresh[1]
         r == replay_next(f.it[1], log.entries)
     IN fresh' = Some(
          IF r.item = None THEN [f EXCEPT !.it = None]
          ELSE [f EXCEPT !.it = Some(r.it),
                         !.bus = send_with_meta(f.bus, r.item[1][1], r.item[1][2],
                                                Len(f.bus.queue) + 1)])
  /\ UNCHANGED <<busVars, appVars, logVars, iters, yielded, validVars, queried, heal, lateVars>>

\* fresh.drain().collect()
FreshDrain ==
  /\ fresh # None /\ fresh[1].it = None /\ ~fresh[1].drained
  /\ LET f == fresh[1]
         envs == drain_range(f.bus.queue)
     IN fresh' = Some([f EXCEPT !.out = [i \in 1..Len(envs) |-> envs[i].env],
                                !.bus.queue = drain_left(@),
                                !.drained = TRUE])
  /\ UNCHANGED <<busVars, appVars, logVars, iters, yielded, validVars, queried, heal, lateVars>>

\* fresh.send(c) once the replayed commands were drained
FreshSend(command, timestamp_ms) ==
  /\ fresh # None /\ fresh[1].drained
  /\ Len(fresh[1].rets) < MaxEnq
  /\ LET f == fresh[1]
     IN fresh' = Some([f EXCEPT !.rets = Append(@, send_ret(f.bus)),
                                !.bus = send(f.bus, command, timestamp_ms,
                                             Len(f.bus.queue) + 1)])
  /\ UNCHANGED <<busVars, appVars, logVars, iters, yielded, validVars, queried, heal, lateVars>>

\* a bus in use and its Log, and a replay of that Log into a second bus
NextReinject ==
  \/ Send(1, 2000)
  \/ SetFrame(FrameA)
  \/ LogAppend
  \/ ReplayStart
  \/ ReplayFeed
  \/ FreshDrain
  \/ FreshSend(1, 2000)

SpecReinject == Init /\ [][NextReinject]_vars

\* ------------------------------------------------ the validators
\* validators.add(v)
AddValidator(v) ==
  /\ Len(validators) < MaxValidators
  /\ validators' = validators_add(validators, v)
  /\ checked' = None
  /\ UNCHANGED <<busVars, appVars, logVars, replayVars, queried, heal, lateVars>>

\* validators.validate(&command)
Validate(command) ==
  /\ checked' = Some([call |-> "validate", command |-> command,
                      ret |-> validate(validators, command)])
  /\ UNCHANGED <<busVars, appVars, logVars, replayVars, validators, queried, heal, lateVars>>

\* validators.validate_all(&command)
ValidateAll(command) ==
  /\ checked' = Some([call |-> "validate_all", command |-> command,
                      ret |-> validate_all(validators, command)])
  /\ UNCHANGED <<busVars, appVars, logVars, replayVars, validators, queried, heal, lateVars>>

\* a bus whose command kind has validators registered, and callers that
\* send without asking them
NextValid ==
  \/ \E v \in TestValidators : AddValidator(v)
  \/ \E c \in TestValues : Validate(c)
  \/ \E c \in TestValues : ValidateAll(c)
  \/ \E c \in TestValues : Send(c, 2000)
  \/ Drain
  \/ DrainNext
  \/ DrainDrop

SpecValid == Init /\ [][NextValid]_vars

\* --------------------------------------------------- querying the Log
\* the queries take &self and return references into the entries, which
\* borrow the Log until they are dropped: queried is [call, args, ret], ret
\* what the returned iterator yields or the returned Option holds
QueryFrames == 0..(MaxLog + 1)
QueryIds == 1..(MaxLog + 1)

InFrameRange(start, end) ==
  /\ queried' = Some([call |-> "in_frame_range", args |-> <<start, end>>,
                      ret |-> in_frame_range(log, start, end)])
  /\ UNCHANGED <<busVars, appVars, logVars, replayVars, validVars, heal, lateVars>>

Successes ==
  /\ queried' = Some([call |-> "successes", args |-> <<>>,
                      ret |-> successes(log)])
  /\ UNCHANGED <<busVars, appVars, logVars, replayVars, validVars, heal, lateVars>>

Failures ==
  /\ queried' = Some([call |-> "failures", args |-> <<>>,
                      ret |-> failures(log)])
  /\ UNCHANGED <<busVars, appVars, logVars, replayVars, validVars, heal, lateVars>>

GetById(id) ==
  /\ queried' = Some([call |-> "get_by_id", args |-> <<id>>,
                      ret |-> get_by_id(log, id)])
  /\ UNCHANGED <<busVars, appVars, logVars, replayVars, validVars, heal, lateVars>>

\* the result of the last query goes out of scope
QueryDrop ==
  /\ queried # None
  /\ queried' = None
  /\ UNCHANGED <<busVars, appVars, logVars, replayVars, validVars, heal, lateVars>>

\* a Log that callers append to, with identities of their own choice, clear
\* and query
NextQuery ==
  \/ LogAppend
  \/ \E m \in ReplayMetas : LogSuccess(ReplayCmd, m)
  \/ \E m \in ReplayMetas : LogFailure(ReplayCmd, m)
  \/ LogClear
  \/ \E start, end \in QueryFrames : InFrameRange(start, end)
  \/ Successes
  \/ Failures
  \/ \E id \in QueryIds : GetById(id)
  \/ QueryDrop

SpecQuery == Init /\ [][NextQuery]_vars

\* ------------------------------------------------ the persisted Log
\* let log = CommandLog::with_persistence(path), in place of the Log that
\* new() made
WithPersistence(path) ==
  /\ ~LogBorrowed
  /\ made.how = "new"
  /\ log' = with_persistence(path)
  /\ made' = [how |-> "with_persistence", base |-> files[path].lines,
              before |-> <<>>, calls |-> <<>>]
  /\ direct' = direct \ {"log"}
  /\ UNCHANGED <<busVars, appVars, files, saved, loaded, nDirect, auxVars>>

\* let log = CommandLog::load_from_file(path)?: the Log that load_from_file
\* returned takes the place of the one in use
AdoptLoaded ==
  /\ ~LogBorrowed
  /\ loaded.status = "ok"
  /\ log' = loaded.log
  /\ made' = [how |-> "load_from_file", base |-> <<>>, before |-> <<>>,
              calls |-> <<>>]
  /\ direct' = IF "loaded" \in direct THEN direct \cup {"log"}
               ELSE direct \ {"log"}
  /\ UNCHANGED <<busVars, appVars, files, saved, loaded, nDirect, auxVars>>

\* callers that append to a Log made by new(), by with_persistence or by
\* load_from_file, while the writes to the backing file succeed or fail
NextPersist ==
  \/ \E p \in Paths : WithPersistence(p)
  \/ LogAppend
  \/ LogSuccess(ReplayCmd, make_meta(ReplayId))
  \/ LogFailure(ReplayCmd, CommandMetaNew(ReplayId, ReplayTs))
  \/ \E p \in Paths : LoadFromFile(p)
  \/ AdoptLoaded

SpecPersist == Init /\ [][NextPersist]_vars

\* an auto-persisting Log that the executor and callers append to and that
\* is cleared in between
NextPersistClear ==
  \/ \E p \in Paths : WithPersistence(p)
  \/ Send(1, 2000)
  \/ AppUpdate({0})
  \/ LogSuccess(ReplayCmd, make_meta(ReplayId))
  \/ LogFailure(ReplayCmd, CommandMetaNew(ReplayId, ReplayTs))
  \/ LogClear
  \/ \E p \in Paths : LoadFromFile(p)

SpecPersistClear == Init /\ [][NextPersistClear]_vars

\* ------------------------------------------------ files that go wrong
\* what a line of a file can be when it is not a serialized LogEntry: text
\* that is no JSON object, or an entry cut short
BadLines(line) == {JNull, [line EXCEPT !.succeeded = JNull]}

\* the environment: another writer, or a crash in the middle of a write,
\* leaves one line of the file damaged
Corrupt(path) ==
  /\ files[path].exists
  /\ \E i \in 1..Len(files[path].lines) :
       /\ from_str(files[path].lines[i]) # None
       /\ \E bad \in BadLines(files[path].lines[i]) :
            files' = [files EXCEPT ![path].lines[i] = bad]
  /\ direct' = direct \ {"file"}
  /\ UNCHANGED <<busVars, appVars, log, saved, loaded, nDirect, made, auxVars>>

\* callers that fill, clear, save and load a Log, over files that may be
\* missing or damaged and a file system that may refuse
NextFiles ==
  \/ \E m \in ReplayMetas : LogSuccess(ReplayCmd, m)
  \/ \E m \in ReplayMetas : LogFailure(ReplayCmd, m)
  \/ LogClear
  \/ \E p \in Paths : SaveToFile(p)
  \/ \E p \in Paths : LoadFromFile(p)
  \/ \E p \in Paths : Corrupt(p)

SpecFiles == Init /\ [][NextFiles]_vars

\* ------------------------------------------------ a second command kind
\* app.register_command::<HealTarget>()
RegisterHeal ==
  /\ heal = None
  /\ heal' = Some(HealBusNew)
  /\ UNCHANGED <<busVars, appVars, logVars, replayVars, validVars, queried, lateVars>>

\* heal_bus.send(HealTarget { .. })
HealSend(amount, timestamp_ms) ==
  /\ heal # None
  /\ Len(heal[1].rets) < MaxEnq
  /\ LET h == heal[1]
     IN heal' = Some([h EXCEPT
          !.bus = send(h.bus, HealTarget(amount), timestamp_ms, Len(h.rets) + 1),
          !.rets = Append(@, send_ret(h.bus))])
  /\ UNCHANGED <<busVars, appVars, logVars, replayVars, validVars, queried, lateVars>>

\* heal_bus.set_frame(frame)
HealSetFrame(frame) ==
  /\ heal # None
  /\ heal' = Some([heal[1] EXCEPT !.bus = set_frame(@, frame), !.lastSet = frame])
  /\ UNCHANGED <<busVars, appVars, logVars, replayVars, validVars, queried, lateVars>>

\* for envelope in heal_bus.drain() { .. }, to the end
HealDrain ==
  /\ heal # None
  /\ heal[1].bus.queue # <<>>
  /\ heal' = Some([heal[1] EXCEPT !.gone = @ + Len(drain_range(heal[1].bus.queue)),
                                  !.bus.queue = drain_left(@)])
  /\ UNCHANGED <<busVars, appVars, logVars, replayVars, validVars, queried, lateVars>>

\* heal_bus.clear()
HealClear ==
  /\ heal # None
  /\ heal[1].bus.queue # <<>>
  /\ heal' = Some([heal[1] EXCEPT !.gone = @ + Len(heal[1].bus.queue),
                                  !.bus = clear(@)])
  /\ UNCHANGED <<busVars, appVars, logVars, replayVars, validVars, queried, lateVars>>

\* an app with CommandBusPlugin, the executor of the one kind and callers of
\* the buses of both kinds
NextKinds ==
  \/ \E c \in Commands : Send(c, 2000)
  \/ SetFrame(FrameA)
  \/ Clear
  \/ AppUpdate({0})
  \/ RegisterHeal
  \/ \E a \in Commands : HealSend(a, 2000)
  \/ HealSetFrame(FrameB)
  \/ HealDrain
  \/ HealClear

SpecKinds == Init /\ [][NextKinds]_vars

\* ------------------------------------- a bus that has run for very long
\* the counter values a bus has after one send and after 2^64 - 3 and
\* 2^64 - 2 sends
WideStarts == {U64(2), <<U64Limb - 1, U64Limb - 1, U64Limb - 1, U64Limb - 2>>, U64Max}

\* the bus after that many sends and a drain, in one of the builds; last
\* (ghost) is the last send call: the bus before it and what it returned
WideStart(n, build) ==
  /\ wide = None
  /\ wide' = [bus |-> [queue |-> <<>>, next_id |-> n, current_frame |-> 0],
              build |-> build, panicked |-> FALSE, sends |-> 0, last |-> None]
  /\ UNCHANGED <<busVars, appVars, logVars, replayVars, validVars, queried, heal,
                 sm, smLast, inspected>>

WideSend(command, timestamp_ms) ==
  /\ wide # None
  /\ ~wide.panicked
  /\ wide.sends < MaxEnq
  /\ LET r == send_u64(wide.bus, command, timestamp_ms, wide.build)
     IN wide' = [wide EXCEPT !.bus = r.bus, !.panicked = r.panic,
                             !.sends = @ + 1,
                             !.last = Some([pre |-> wide.bus, ret |-> r.ret,
                                            command |-> command])]
  /\ UNCHANGED <<busVars, appVars, logVars, replayVars, validVars, queried, heal,
                 sm, smLast, inspected>>

WideSetFrame(frame) ==
  /\ wide # None
  /\ ~wide.panicked
  /\ wide' = [wide EXCEPT !.bus = set_frame(@, frame), !.last = None]
  /\ UNCHANGED <<busVars, appVars, logVars, replayVars, validVars, queried, heal,
                 sm, smLast, inspected>>

\* for envelope in bus.drain() { .. }, to the end
WideDrain ==
  /\ wide # None
  /\ ~wide.panicked
  /\ wide.bus.queue # <<>>
  /\ wide' = [wide EXCEPT !.bus.queue = drain_left(@), !.last = None]
  /\ UNCHANGED <<busVars, appVars, logVars, replayVars, validVars, queried, heal,
                 sm, smLast, inspected>>

NextWide ==
  \/ \E n \in WideStarts, build \in Builds : WideStart(n, build)
  \/ \E c \in Commands, ts \in Clock : WideSend(c, ts)
  \/ \E f \in Frames : WideSetFrame(f)
  \/ WideDrain

SpecWide == Init /\ [][NextWide]_vars

\* -------------------------------------------- asking about a result
\* what the four methods of CommandResult answer for r
Answers(r) ==
  [result |-> r, is_success |-> is_success(r), is_failed |-> is_failed(r),
   is_rejected |-> is_rejected(r), ok |-> result_ok(r)]

\* event.result of a CommandExecuted the executor wrote is asked about
InspectEvent(i) ==
  /\ i \in 1..Len(events)
  /\ inspected' = Some(Answers(events[i].result))
  /\ UNCHANGED <<busVars, appVars, logVars, replayVars, validVars, queried, heal,
                 wide, sm, smLast>>

\* CommandResult::Rejected(error) with the error validate returned
InspectRejected ==
  /\ checked # None /\ checked[1].call = "validate"
  /\ ~checked[1].ret.result.ok
  /\ inspected' = Some(Answers(CommandResultRejected(checked[1].ret.result.err)))
  /\ UNCHANGED <<busVars, appVars, logVars, replayVars, validVars, queried, heal,
                 wide, sm, smLast>>

\* the executor, validators of the command kind and a caller that looks at
\* the results of both
NextResult ==
  \/ \E c \in Commands : Send(c, 2000)
  \/ SpawnHealth
  \/ AppUpdate(Elapsed)
  \/ \E v \in TestValidators : AddValidator(v)
  \/ \E c \in TestValues : Validate(c)
  \/ \E i \in 1..MaxEnq : InspectEvent(i)
  \/ InspectRejected

SpecResult == Init /\ [][NextResult]_vars

\* ------------------------------------------------------- state machines
\* Times are whole numbers of a fixed unit (half a second); the source holds
\* them in f32 seconds.

\* TransitionCondition::always, manual, after, flag
always == [kind |-> "Always"]
manual == [kind |-> "Manual"]
after(seconds) == [kind |-> "After", seconds |-> seconds]
flag(name, value) == [kind |-> "Flag", name |-> name, value |-> value]

\* TransitionDefinition::new(from, to): condition Manual, priority 0
TransitionDefinitionNew(from, to) ==
  [from |-> from, to |-> to, condition |-> manual, priority |-> 0]
when(t, condition) == [t EXCEPT !.condition = condition]
with_priority(t, priority) == [t EXCEPT !.priority = priority]

\* StateMachineDefinition::new, with_state, with_transition
StateMachineDefinitionNew(id, initial_state) ==
  [id |-> id, initial_state |-> initial_state, states |-> <<>>,
   transitions |-> <<>>]
with_state(def, id) == [def EXCEPT !.states = Append(@, [id |-> id])]
with_transition(def, t) == [def EXCEPT !.transitions = Append(@, t)]

\* self.states.iter().find(|s| &s.id == id)
get_state_First(def, id) ==
  IF def.states = <<>> THEN None ELSE Some(def.states[1])
get_state(def, id) ==
  LET found == SelectSeq(def.states, LAMBDA st : st.id = id)
  IN IF found = <<>> THEN None ELSE Some(found[1])

\* Vec::sort_by(|a, b| b.priority.cmp(&a.priority)): a stable sort, higher
\* priority first, done here by insertion from the left
RECURSIVE sort_by_priority(_)
sort_by_priority(ts) ==
  IF ts = <<>> THEN <<>>
  ELSE LET front == sort_by_priority(SubSeq(ts, 1, Len(ts) - 1))
           t == ts[Len(ts)]
           keep == SelectSeq(front, LAMBDA a : a.priority >= t.priority)
           rest == SelectSeq(front, LAMBDA a : a.priority < t.priority)
       IN keep \o <<t>> \o rest

\* StateMachineDefinition::get_transitions_from
get_transitions_from_Unsorted(def, from) ==
  SelectSeq(def.transitions, LAMBDA t : t.from = from)
get_transitions_from(def, from) ==
  sort_by_priority(SelectSeq(def.transitions, LAMBDA t : t.from = from))

\* StateContext: the flags set so far and the time in the current state
NoFlags == [n \in {} |-> FALSE]
StateContextNew == [flags |-> NoFlags, time_in_state |-> 0]
context_set_flag(ctx, name, value) ==
  [ctx EXCEPT !.flags = [n \in DOMAIN @ \cup {name} |->
                           IF n = name THEN value ELSE @[n]]]
\* self.flags.get(name).copied().unwrap_or(false)
get_flag(ctx, name) ==
  IF name \in DOMAIN ctx.flags THEN ctx.flags[name] ELSE FALSE
reset_time_Keep(ctx) == ctx
reset_time(ctx) == [ctx EXCEPT !.time_in_state = 0]
add_time(ctx, delta) == [ctx EXCEPT !.time_in_state = @ + delta]

\* ConditionEvaluator::evaluate, for the conditions the machines here use
evaluate(condition, ctx) ==
  CASE condition.kind = "Always" -> TRUE
    [] condition.kind = "Manual" -> FALSE
    [] condition.kind = "After" -> ctx.time_in_state >= condition.seconds
    [] condition.kind = "Flag" ->
         get_flag(ctx, condition.name) = condition.value

\* StateMachine::new
StateMachineNew(definition) ==
  [definition |-> definition, current_state |-> definition.initial_state,
   context |-> StateContextNew, needs_update |-> TRUE,
   manual_transition |-> None]

\* StateMachine::set_flag, trigger_transition, force_update
set_flag(m, name, value) ==
  [m EXCEPT !.context = context_set_flag(@, name, value),
            !.needs_update = TRUE]
trigger_transition(m, to) ==
  [m EXCEPT !.manual_transition = Some(to), !.needs_update = TRUE]
force_update(m) == [m EXCEPT !.needs_update = TRUE]

StateTransition(from, to, time_in_previous) ==
  [from |-> from, to |-> to, time_in_previous |-> time_in_previous]

\* StateMachine::update: the machine it leaves and the transition it returns
update(m, delta) ==
  LET ctx == add_time(m.context, delta)
      target == m.manual_transition
      taken == [m EXCEPT !.context = ctx, !.manual_transition = None]
  IN IF target # None /\ get_state(m.definition, target[1]) # None
     THEN [machine |-> [taken EXCEPT !.current_state = target[1],
                                     !.context = reset_time(ctx)],
           ret |-> Some(StateTransition(m.current_state, target[1],
                                        ctx.time_in_state))]
     ELSE IF taken.needs_update \/ ctx.time_in_state < delta * 2
     THEN LET seen == [taken EXCEPT !.needs_update = FALSE]
              hits == SelectSeq(
                        get_transitions_from(m.definition, m.current_state),
                        LAMBDA t : evaluate(t.condition, ctx))
          IN IF hits = <<>>
             THEN [machine |-> seen, ret |-> None]
             ELSE [machine |-> [seen EXCEPT !.current_state = hits[1].to,
                                            !.context = reset_time(ctx)],
                   ret |-> Some(StateTransition(m.current_state, hits[1].to,
                                                ctx.time_in_state))]
     ELSE [machine |-> taken, ret |-> None]

\* after(1.0) of timed_transition, in half seconds
AfterSeconds == 2

\* the machines of the tests
simple_machine ==
  with_state(with_state(with_state(
    StateMachineDefinitionNew("test", "idle"), "idle"), "active"), "done")
timed_machine ==
  with_transition(
    with_state(with_state(
      StateMachineDefinitionNew("timed", "idle"), "idle"), "active"),
    when(TransitionDefinitionNew("idle", "active"), after(AfterSeconds)))
priority_machine ==
  with_transition(with_transition(
    with_state(with_state(with_state(
      StateMachineDefinitionNew("priority", "idle"),
      "idle"), "low_priority"), "high_priority"),
    with_priority(when(TransitionDefinitionNew("idle", "low_priority"),
                       always), 1)),
    with_priority(when(TransitionDefinitionNew("idle", "high_priority"),
                       always), 10))
\* two flag transitions of equal priority, a timed one of higher priority
\* defined after them, an unconditional one out of "active" and a Manual one
mixed_machine ==
  with_transition(with_transition(with_transition(with_transition(
  with_transition(
    with_state(with_state(with_state(
      StateMachineDefinitionNew("mixed", "idle"), "idle"), "active"), "done"),
    when(TransitionDefinitionNew("idle", "done"), flag("go", TRUE))),
    when(TransitionDefinitionNew("idle", "active"), flag("go", TRUE))),
    with_priority(when(TransitionDefinitionNew("idle", "active"),
                       after(AfterSeconds)), 5)),
    when(TransitionDefinitionNew("active", "done"), always)),
    TransitionDefinitionNew("done", "idle"))

Definitions ==
  {simple_machine, timed_machine, priority_machine, mixed_machine}
\* the frame times update is called with
Deltas == {1, 2, 3}
\* the states a caller asks for; "nonexistent" is in no definition
Targets == {"idle", "active", "done", "nonexistent"}

\* smLast: the last call when it was update (delta, the machine before, what
\* it returned, the deltas summed since the state was entered), and that sum
SmNew(def) ==
  /\ sm = None
  /\ sm' = Some(StateMachineNew(def))
  /\ smLast' = [call |-> None, since |-> 0]
  /\ UNCHANGED <<busVars, appVars, logVars, replayVars, validVars, queried, heal,
                 wide, inspected>>

\* machine.update(delta), as update_state_machines does every frame
SmUpdate(delta) ==
  /\ sm # None
  /\ sm[1].context.time_in_state + delta <= MaxTime
  /\ LET r == update(sm[1], delta)
     IN /\ sm' = Some(r.machine)
        /\ smLast' = [call |-> Some([delta |-> delta, pre |-> sm[1],
                                     ret |-> r.ret,
                                     sum |-> smLast.since + delta]),
                      since |-> IF r.ret # None THEN 0
                                ELSE smLast.since + delta]
  /\ UNCHANGED <<busVars, appVars, logVars, replayVars, validVars, queried, heal,
                 wide, inspected>>

SmTrigger(to) ==
  /\ sm # None
  /\ sm' = Some(trigger_transition(sm[1], to))
  /\ smLast' = [smLast EXCEPT !.call = None]
  /\ UNCHANGED <<busVars, appVars, logVars, replayVars, validVars, queried, heal,
                 wide, inspected>>

SmSetFlag(name, value) ==
  /\ sm # None
  /\ sm' = Some(set_flag(sm[1], name, value))
  /\ smLast' = [smLast EXCEPT !.call = None]
  /\ UNCHANGED <<busVars, appVars, logVars, replayVars, validVars, queried, heal,
                 wide, inspected>>

SmForceUpdate ==
  /\ sm # None
  /\ sm' = Some(force_update(sm[1]))
  /\ smLast' = [smLast EXCEPT !.call = None]
  /\ UNCHANGED <<busVars, appVars, logVars, replayVars, validVars, queried, heal,
                 wide, inspected>>

\* a machine that only the per-frame system touches
NextFrames ==
  \/ \E def \in Definitions : SmNew(def)
  \/ \E delta \in Deltas : SmUpdate(delta)

SpecFrames == Init /\ [][NextFrames]_vars

\* a machine and a caller of all of its methods
NextMachine ==
  \/ \E def \in Definitions : SmNew(def)
  \/ \E delta \in Deltas : SmUpdate(delta)
  \/ \E to \in Targets : SmTrigger(to)
  \/ \E value \in BOOLEAN : SmSetFlag("go", value)
  \/ SmForceUpdate

SpecMachine == Init /\ [][NextMachine]_vars

\* ------------------------------------------------- properties of the bus
RECURSIVE Asc(_)
\* the elements of a finite set of numbers, ascending
Asc(S) ==
  IF S = {} THEN <<>>
  ELSE LET m == CHOOSE x \in S : \A y \in S : x <= y
       IN <<m>> \o Asc(S \ {m})

IsPrefix(s, t) == Len(s) <= Len(t) /\ \A i \in 1..Len(s) : s[i] = t[i]

\* the send calls so far, in call order
SendCalls == SelectSeq(enq, LAMBDA e : e.via = "send")
\* every Envelope the bus holds or has handed out
Held == Range(bus.queue) \cup Range(drainRest)
HandedOut == {out[i].item : i \in 1..Len(out)}
Items == Held \cup HandedOut
BySend(it) == enq[it.tag].via = "send"
\* the tags the last drain() call has yielded so far, in yield order
YieldedNow ==
  LET ys == SelectSeq(out, LAMBDA y : y.d = drainNo)
  IN [i \in 1..Len(ys) |-> ys[i].item.tag]
YieldCount(t) == Cardinality({i \in 1..Len(out) : out[i].item.tag = t})
PendingTags == TagSet(bus.queue) \cup TagSet(drainRest)
QueueIds == [i \in 1..Len(bus.queue) |-> bus.queue[i].env.meta.id]

\* C1: the k-th send on a bus returns the identity k, so N sends return
\* 1, 2, ..., N in that order.
C1_SendReturnsOneToN ==
  \A k \in 1..Len(SendCalls) : SendCalls[k].ret = k

C1_Witness ==
  /\ Len(SendCalls) >= 3
  /\ SendCalls[3].ret = 3

\* C2: a drain yields the Envelopes that were pending when drain() was
\* called in the order of their enqueue calls (a prefix of them when the
\* caller stops early, all of them when the iterator is exhausted), and
\* from the drain() call on the queue holds only Envelopes enqueued after
\* it: it is empty while the iterator lives and when it is dropped.
C2_DrainFifoThenEmpty ==
  /\ draining => bus.queue = <<>>
  /\ drainNo > 0 => \A t \in TagSet(bus.queue) : t > enqAt
  /\ IsPrefix(YieldedNow, Asc(pendingAt))
  /\ draining => YieldedNow \o Tags(drainRest) = Asc(pendingAt)

\* two pending Envelopes, one from send and one from send_with_meta; the
\* caller took the first and dropped the iterator, and a send followed
C2_Witness ==
  /\ ~draining
  /\ Len(YieldedNow) = 1
  /\ Cardinality(pendingAt) = 2
  /\ \E a, b \in pendingAt : enq[a].via = "send" /\ enq[b].via = "meta"
  /\ Len(bus.queue) = 1

\* C3 as claimed: no two Envelopes the bus holds or has handed out carry the
\* same identity, and identities increase strictly from queue head to tail.
C3_AllIdsUniqueAndIncreasing ==
  /\ \A a, b \in Items : a.tag # b.tag => a.env.meta.id # b.env.meta.id
  /\ \A i, j \in 1..Len(bus.queue) : i < j => QueueIds[i] < QueueIds[j]

\* C3 amended: the claim holds of the Envelopes created by send; the identity
\* of an Envelope enqueued by send_with_meta is whatever the caller supplied.
C3_SendIdsUniqueAndIncreasing ==
  /\ \A a, b \in Items :
       (BySend(a) /\ BySend(b) /\ a.tag # b.tag) => a.env.meta.id # b.env.meta.id
  /\ \A i, j \in 1..Len(bus.queue) :
       (i < j /\ BySend(bus.queue[i]) /\ BySend(bus.queue[j]))
         => QueueIds[i] < QueueIds[j]

\* two Envelopes from send wait in the queue behind one from send_with_meta
\* that repeats the identity of the first
C3_Witness ==
  /\ Len(bus.queue) = 3
  /\ ~BySend(bus.queue[1]) /\ BySend(bus.queue[2]) /\ BySend(bus.queue[3])
  /\ QueueIds[1] = QueueIds[2]

\* C4: send_with_meta leaves the identity counter alone (the next send returns
\* 1 + the number of send calls so far, however many send_with_meta calls
\* there were), and the Envelope it enqueued carries, in the queue and when
\* drained, exactly the command and the Metadata passed.
C4_SendWithMetaVerbatim ==
  /\ send_ret(bus) = Len(SendCalls) + 1
  /\ \A it \in Items :
       ~BySend(it) => it.env = [command |-> enq[it.tag].command,
                                meta |-> enq[it.tag].meta[1]]

\* an Envelope enqueued by send_with_meta with no frame, while the bus
\* stamps a frame, was drained, and a send came after it
C4_Witness ==
  \E it \in HandedOut :
    /\ ~BySend(it)
    /\ it.env.meta.frame = None
    /\ enq[it.tag].lastSet = 0
    /\ bus.current_frame = FrameA
    /\ \E k \in 1..Len(enq) : k > it.tag /\ enq[k].via = "send"

\* C5: the identity counter is never reset or reused: every identity send
\* has returned is below the counter in every later state, and each send
\* returns more than every send before it.
C5_CounterNeverReset ==
  /\ \A k \in 1..Len(SendCalls) : SendCalls[k].ret < bus.next_id
  /\ \A j, k \in 1..Len(SendCalls) : j < k => SendCalls[j].ret < SendCalls[k].ret

\* sends before and after a clear(), a drain() and a set_frame()
C5_Witness ==
  /\ Len(SendCalls) >= 2
  /\ cleared # {}
  /\ drainNo > 0
  /\ lastSet # 0
  /\ \E t \in TagSet(bus.queue) : BySend(bus.queue[1]) /\ t > enqAt

\* C6 as claimed: an Envelope is yielded at most once, exactly once when it
\* has left the queue other than by clear(), and is not in the queue (where a
\* later drain or peek would find it) once it was yielded.
C6_YieldedOnceUnlessCleared ==
  \A t \in 1..Len(enq) :
    /\ YieldCount(t) <= 1
    /\ (t \notin PendingTags /\ t \notin cleared) => YieldCount(t) = 1
    /\ YieldCount(t) >= 1 => t \notin PendingTags

\* C6 amended: ... exactly once when it has left the queue other than by
\* clear() or by the drop of a Drain iterator that had not reached it.
C6_YieldedOnceUnlessDiscarded ==
  \A t \in 1..Len(enq) :
    /\ YieldCount(t) <= 1
    /\ (t \notin PendingTags /\ t \notin cleared /\ t \notin dropped)
         => YieldCount(t) = 1
    /\ YieldCount(t) >= 1 => t \notin PendingTags
    /\ t \in cleared \cup dropped => YieldCount(t) = 0 /\ t \notin PendingTags

\* one Envelope yielded, one dropped with the iterator, one cleared, and a
\* second drain() called after that
C6_Witness ==
  /\ Len(out) = 1
  /\ dropped # {}
  /\ cleared # {}
  /\ drainNo = 2

\* C7: an Envelope created by send carries the value most recently passed to
\* set_frame before that send (0 when there was none), in the queue and when
\* drained, whatever set_frame calls follow.
C7_FrameStampedAtSend ==
  \A it \in Items :
    BySend(it) => it.env.meta.frame = Some(enq[it.tag].lastSet)

\* two sends at frame 100 and one at frame 101, drained in that order
C7_Witness ==
  /\ Len(out) = 3
  /\ \A i \in 1..3 : BySend(out[i].item) /\ out[i].d = 1
  /\ out[1].item.env.command = 1 /\ out[2].item.env.command = 2
  /\ [i \in 1..3 |-> out[i].item.env.meta.frame]
       = <<Some(FrameA), Some(FrameA), Some(FrameB)>>

\* C8: the Envelope of a send(c) call has command c and the identity send
\* returned, in the queue and when drained.
C8_CarriedUnaltered ==
  \A it \in Items :
    BySend(it) => /\ it.env.command = enq[it.tag].command
                  /\ it.env.meta.id = enq[it.tag].ret

\* the first send's Envelope was drained after a send_with_meta, another
\* send and a set_frame happened while it waited
C8_Witness ==
  /\ Len(enq) = 3
  /\ enq[1].via = "send" /\ enq[2].via = "meta" /\ enq[3].via = "send"
  /\ enq[3].lastSet # 0
  /\ \E it \in HandedOut : it.tag = 1 /\ enqAt = 3


\* ------------------------------------------- properties of the executor
SendIds == [k \in 1..Len(SendCalls) |-> SendCalls[k].ret]
LogIds == [i \in 1..Len(log.entries) |-> log.entries[i].meta.id]
EventIds == [i \in 1..Len(events) |-> events[i].meta.id]

\* C9: with an executor that at each tick drains the bus and writes one Log
\* Entry and one event per drained Envelope, the identities in the Log are
\* the identities send returned, in send order, up to the last tick (all of
\* them once the queue is empty), and the events carry the same identities
\* in the same order, each with the outcome the Log Entry records.
C9_SendDrainLogFifo ==
  /\ IsPrefix(LogIds, SendIds)
  /\ Len(LogIds) + Len(bus.queue) = Len(SendIds)
  /\ EventIds = LogIds
  /\ \A i \in 1..Len(events) :
       /\ events[i].command = log.entries[i].command
       /\ (events[i].result.kind = "Success") = log.entries[i].succeeded

\* a send and a tick before the Health entity exists, two sends and a tick
\* after it was spawned: a failure, then two successes
C9_Witness ==
  /\ frame_count = 2
  /\ bus.queue = <<>>
  /\ LogIds = <<1, 2, 3>>
  /\ [i \in 1..3 |-> log.entries[i].succeeded] = <<FALSE, TRUE, TRUE>>


\* ------------------------------------------------ properties of the Log
Distinct(seq) == \A i, j \in 1..Len(seq) : i # j => seq[i] # seq[j]
LoadedIds ==
  [i \in 1..Len(loaded.log.entries) |-> loaded.log.entries[i].meta.id]

\* C10 as claimed: no two entries of the Log, or of a Log that load_from_file
\* returned, share an identity.
C10_LogIdsDistinct ==
  /\ Distinct(LogIds)
  /\ loaded.status = "ok" => Distinct(LoadedIds)

\* C10 amended: the entries the executor wrote for the Envelopes that send
\* created on one bus have pairwise distinct identities, whatever clear()
\* calls come between, and so have the entries of a Log that load_from_file
\* returns for a file save_to_file wrote from such a Log.
C10_ExecutorLogIdsDistinct ==
  /\ "log" \notin direct => Distinct(LogIds)
  /\ (loaded.status = "ok" /\ "loaded" \notin direct) => Distinct(LoadedIds)

\* after a direct call and a clear(), the executor logged two Envelopes, and
\* the Log was saved and loaded back with both entries
C10_Witness ==
  /\ nDirect > 0
  /\ "log" \notin direct /\ Len(log.entries) >= 2
  /\ saved = "ok"
  /\ loaded.status = "ok" /\ "loaded" \notin direct
  /\ Len(loaded.log.entries) >= 2


\* C11: the Log is append-only. A log_success / log_failure call adds one
\* entry at the end, flagged succeeded / not succeeded, with the command and
\* Metadata passed; every step other than clear() keeps every entry at its
\* position with its content, so entries() is in append order and the length
\* decreases only through clear().
C11_AppendOnly ==
  [][/\ \A m \in ReplayMetas :
          LogSuccess(ReplayCmd, m) =>
            log'.entries = Append(log.entries,
              [command |-> ReplayCmd, meta |-> m, succeeded |-> TRUE])
     /\ \A m \in ReplayMetas :
          LogFailure(ReplayCmd, m) =>
            log'.entries = Append(log.entries,
              [command |-> ReplayCmd, meta |-> m, succeeded |-> FALSE])
     /\ LogClear \/ IsPrefix(log.entries, log'.entries)]_vars

\* the executor logged a failure, then a caller logged a success and a
\* failure behind it
C11_Witness ==
  /\ Len(log.entries) = 3
  /\ log.entries[1].command \in Commands /\ ~log.entries[1].succeeded
  /\ log.entries[2].command = ReplayCmd /\ log.entries[2].succeeded
  /\ log.entries[3].command = ReplayCmd /\ ~log.entries[3].succeeded
  /\ nDirect = MaxDirect

\* ------------------------------------------------ properties of replay
\* the (command, metadata) pairs of a sequence of entries, in its order
Pairs(es) == [i \in 1..Len(es) |-> <<es[i].command, es[i].meta>>]
SuccessPairs(es) == Pairs(SelectSeq(es, LAMBDA e : e.succeeded))
RECURSIVE Collect(_, _)
\* it.collect(): everything the iterator returns until it returns None
Collect(it, entries) ==
  LET r == replay_next(it, entries)
  IN IF r.item = None THEN <<>> ELSE r.item \o Collect(r.it, entries)

\* C12: a ReplayIterator without the success filter has returned the pairs of
\* the first entries of the Log, one per entry in append order, and all of
\* them when it has returned None; another replay() of the same Log returns
\* the same sequence from the start, wherever the iterators alive stand.
C12_ReplayInOrderRestartable ==
  /\ Collect(replay(log), log.entries) = Pairs(log.entries)
  /\ \A k \in Slots :
       (iters[k] # None /\ ~iters[k][1].filter_successes) =>
         /\ iters[k][1].pos <= Len(log.entries)
         /\ yielded[k] = Pairs(SubSeq(log.entries, 1, iters[k][1].pos))
         /\ iters[k][1].done => yielded[k] = Pairs(log.entries)

\* one iterator has run through a Log of three entries; a second one,
\* created after the first had returned two pairs, has returned one
C12_Witness ==
  /\ Len(log.entries) = 3
  /\ iters[1] # None /\ iters[1][1].done /\ ~iters[1][1].filter_successes
  /\ Len(yielded[1]) = 3
  /\ iters[2] # None /\ ~iters[2][1].filter_successes
  /\ yielded[2] = <<yielded[1][1]>>

\* C13: replay().successes_only() returns the pairs of the entries with
\* succeeded = true, each once, in their order in the Log; when the filter
\* is set later, the pairs returned from then on are those of the successes.
C13_SuccessesOnly ==
  /\ Collect(successes_only(replay(log)), log.entries) = SuccessPairs(log.entries)
  /\ \A k \in Slots :
       (iters[k] # None /\ iters[k][1].filter_successes) =>
         LET it == iters[k][1]
         IN /\ it.since <= it.pos /\ it.pos <= Len(log.entries)
            /\ yielded[k] = Pairs(SubSeq(log.entries, 1, it.since))
                 \o SuccessPairs(SubSeq(log.entries, it.since + 1, it.pos))
            /\ (it.done /\ it.since = 0) => yielded[k] = SuccessPairs(log.entries)

\* the Log [success(1), failure(2), success(3)] replayed to the end with the
\* filter set at the start: [(1, meta1), (3, meta3)]
C13_Witness ==
  /\ Len(log.entries) = 3
  /\ log.entries[1].succeeded /\ ~log.entries[2].succeeded /\ log.entries[3].succeeded
  /\ \E k \in Slots :
       /\ iters[k] # None /\ iters[k][1].filter_successes
       /\ iters[k][1].since = 0 /\ iters[k][1].done
       /\ yielded[k] = << <<1, log.entries[1].meta>>, <<3, log.entries[3].meta>> >>

\* ---------------------------------------------- properties of persistence
\* C14: save_to_file followed by load_from_file of the same path, both
\* succeeding, gives a Log with the same entries: as many, in the same order,
\* each with the same command, identity, timestamp, frame (absent frames
\* stay absent) and success flag; this for every Log, the empty one included.
C14_SaveLoadRoundTrip ==
  \A p \in Paths :
    LET r == save_to_file(log, files[p], "ok", 0)
        l == load_from_file(r.file, TRUE)
    IN /\ r.result = "ok"
       /\ l.status = "ok"
       /\ l.log.entries = log.entries

\* a Log of several entries, with and without a frame, successes and
\* failures, was saved and loaded back
C14_Witness ==
  /\ saved = "ok" /\ loaded.status = "ok"
  /\ Len(log.entries) >= 3
  /\ loaded.log.entries = log.entries
  /\ \E p \in Paths : Len(files[p].lines) = Len(log.entries)
  /\ \E i, j \in 1..Len(log.entries) :
       /\ log.entries[i].meta.frame = None /\ log.entries[j].meta.frame # None
       /\ log.entries[i].succeeded /\ ~log.entries[j].succeeded

\* the (command, metadata) pairs of a sequence of Envelopes
EnvPairs(envs) == [i \in 1..Len(envs) |-> <<envs[i].command, envs[i].meta>>]
QueueEnvs(b) == [i \in 1..Len(b.queue) |-> b.queue[i].env]

\* C15: a replay of the Log fed pair by pair into send_with_meta of a new bus
\* queues, and a drain of that bus yields, the pairs of the Log in append
\* order; the identity counter of the new bus is where new() put it (its
\* sends return 1, 2, ...); the bus the Log was written for has the queue,
\* counter and frame that its own send and set_frame calls gave it.
C15_ReplayIntoNewBus ==
  /\ fresh # None =>
       LET f == fresh[1]
       IN /\ f.bus.next_id = 1 + Len(f.rets)
          /\ \A i \in 1..Len(f.rets) : f.rets[i] = i
          /\ f.it # None =>
               EnvPairs(QueueEnvs(f.bus)) = Pairs(SubSeq(f.src, 1, f.it[1].pos))
          /\ (f.it = None /\ ~f.drained) => EnvPairs(QueueEnvs(f.bus)) = Pairs(f.src)
          /\ f.drained => EnvPairs(f.out) = Pairs(f.src)
  /\ bus.next_id = 1 + Len(SendCalls)
  /\ bus.current_frame = lastSet
  /\ Tags(bus.queue) = [i \in 1..Len(enq) |-> i]
  /\ \A i \in 1..Len(bus.queue) : bus.queue[i].env.meta.id = i

\* the bus has sent two commands, at frame 100; a Log of three entries
\* that repeat its identities was replayed into a new bus and drained
\* there, and the first send on the new bus returned 1
C15_Witness ==
  /\ Len(bus.queue) = 2 /\ bus.next_id = 3 /\ bus.current_frame = FrameA
  /\ fresh # None /\ fresh[1].drained
  /\ Len(fresh[1].out) = 3 /\ fresh[1].src = log.entries
  /\ fresh[1].out[1].meta.id = 1
  /\ fresh[1].rets = <<1>>

\* ------------------------------------------- properties of validation
\* the positions of the validators that reject the command
Rejecting(vs, command) ==
  {i \in 1..Len(vs) : ~validator_validate(vs[i], command).ok}
Min(S) == CHOOSE i \in S : \A j \in S : i <= j

\* C16: validate calls the validators in registration order up to and
\* including the first that rejects the command, returns that one's error,
\* and calls none registered after it; it returns success exactly when every
\* registered validator accepts, as when none is registered.
C16_ValidateFailFast ==
  (checked # None /\ checked[1].call = "validate") =>
    LET c == checked[1].command
        r == checked[1].ret
        bad == Rejecting(validators, c)
    IN /\ r.result.ok <=> bad = {}
       /\ bad = {} => r.ran = validators
       /\ bad # {} =>
            /\ r.result = validator_validate(validators[Min(bad)], c)
            /\ r.ran = SubSeq(validators, 1, Min(bad))

\* [positive, even] asked about -5, which both reject: the error is the
\* first one's and the second was not called
C16_Witness ==
  /\ validators = <<PositiveValidator, EvenValidator>>
  /\ checked # None /\ checked[1].call = "validate"
  /\ checked[1].command = NegValue
  /\ ~checked[1].ret.result.ok
  /\ checked[1].ret.result.err.reason = "must be positive"
  /\ checked[1].ret.ran = <<PositiveValidator>>

\* C17: validate_all calls every registered validator and returns one error
\* for each that rejects the command, in registration order; [positive,
\* max <= 100] give one error for 150, one for -5 and none for 50.
C17_ValidateAllCollects ==
  /\ (checked # None /\ checked[1].call = "validate_all") =>
       LET c == checked[1].command
           r == checked[1].ret
           bad == Rejecting(validators, c)
           rejecting == SelectSeq([i \in 1..Len(validators) |-> i],
                                  LAMBDA i : i \in bad)
       IN /\ r.ran = validators
          /\ Len(r.errors) = Cardinality(bad)
          /\ r.errors = [k \in 1..Len(rejecting) |->
                           validator_validate(validators[rejecting[k]], c).err]
  /\ LET vs == <<PositiveValidator, MaxValueValidator(MaxAllowed)>>
     IN /\ Len(validate_all(vs, BigValue).errors) = 1
        /\ Len(validate_all(vs, NegValue).errors) = 1
        /\ validate_all(vs, MidValue).errors = <<>>

\* [positive, even] asked about -5: two errors, in registration order
C17_Witness ==
  /\ validators = <<PositiveValidator, EvenValidator>>
  /\ checked # None /\ checked[1].call = "validate_all"
  /\ checked[1].command = NegValue
  /\ Len(checked[1].ret.errors) = 2
  /\ checked[1].ret.errors[1].reason = "must be positive"
  /\ checked[1].ret.errors[2].reason = "must be even"

\* C18: send does not ask the validators. Whatever validators are registered
\* and whether or not they reject the command, the k-th send returns k, its
\* Envelope with that command and identity is in the queue until a drain
\* takes it, and the next drain after the send hands it to its iterator.
C18_SendIgnoresValidators ==
  \A t \in 1..Len(enq) :
    /\ enq[t].ret = t
    /\ t \in PendingTags \cup Gone
    /\ \A it \in Items :
         it.tag = t => it.env.command = enq[t].command /\ it.env.meta.id = t
    /\ (drainNo > 0 /\ t <= enqAt) =>
         t \in YieldedTags \cup TagSet(drainRest) \cup dropped

\* -5 was sent after [positive, max <= 100] were registered, which reject
\* it; it got the identity 2 and the next drain yielded it
C18_Witness ==
  /\ validators = <<PositiveValidator, MaxValueValidator(MaxAllowed)>>
  /\ checked # None /\ checked[1].call = "validate"
  /\ checked[1].command = NegValue /\ ~checked[1].ret.result.ok
  /\ Len(enq) >= 2 /\ enq[2].command = NegValue /\ enq[2].ret = 2
  /\ \E i \in 1..Len(out) :
       /\ out[i].item.tag = 2
       /\ out[i].item.env.command = NegValue
       /\ out[i].item.env.meta.id = 2

\* ------------------------------------------------ properties of clear
\* C19: clear() discards what is pending and nothing else happens. A
\* discarded Envelope is in no queue, was yielded by no drain, and no Log
\* entry and no event carries its identity; whatever is pending was sent
\* after the last clear(); the identity counter still counts the sends and
\* the frame is the one last set.
C19_ClearIsSilent ==
  /\ \A t \in cleared :
       /\ t \notin PendingTags /\ t \notin YieldedTags
       /\ \A i \in 1..Len(log.entries) : log.entries[i].meta.id # enq[t].ret
       /\ \A i \in 1..Len(events) : events[i].meta.id # enq[t].ret
       /\ \A u \in PendingTags : u > t
  /\ Len(log.entries) = Len(out) /\ Len(events) = Len(out)
  /\ bus.next_id = 1 + Len(SendCalls)
  /\ bus.current_frame = lastSet

\* two commands were sent at frame 100 and cleared; a third was sent and
\* executed: the Log and the events hold the third only
C19_Witness ==
  /\ cleared = {1, 2}
  /\ bus.queue = <<>> /\ bus.next_id = 4 /\ bus.current_frame = FrameA
  /\ drainNo > 0 /\ enqAt = 3
  /\ LogIds = <<3>> /\ EventIds = <<3>>
  /\ log.entries[1].succeeded

\* ------------------------------------------------- properties of peek
\* C20: peek() returns none on an empty bus and otherwise the head Envelope:
\* the earliest enqueued of the pending ones, which the next drain would
\* yield first; the call leaves the queue, the counter and the frame as they
\* were.
C20_PeekHeadReadOnly ==
  /\ [](peeked # None =>
          /\ bus.queue # <<>>
          /\ peeked[1] = drain_range(bus.queue)[1].env
          /\ \A u \in PendingTags : bus.queue[1].tag <= u
          /\ peeked[1].command = enq[bus.queue[1].tag].command)
  /\ [][Peek => /\ bus' = bus
                /\ Len(bus'.queue) = Len(bus.queue)
                /\ (bus.queue = <<>> <=> peeked' = None)]_vars

\* peek() on a bus holding two Envelopes returned the first; set_frame and
\* an earlier drain came before
C20_Witness ==
  /\ peeked # None
  /\ Len(bus.queue) = 2
  /\ peeked[1] = bus.queue[1].env
  /\ peeked[1] # bus.queue[2].env
  /\ drainNo > 0 /\ bus.queue[1].tag > 1
  /\ bus.next_id = 3


\* ------------------------------------------- properties of the queries
\* the elements of s at the indices idx, in the order of s
At(s, idx) == LET a == Asc(idx) IN [k \in 1..Len(a) |-> s[a[k]]]
FrameIn(e, lo, hi) ==
  e.meta.frame # None /\ lo <= e.meta.frame[1] /\ e.meta.frame[1] <= hi
Asked(call) == queried # None /\ queried[1].call = call

\* C21: in_frame_range(lo, hi) returns, in append order, exactly the entries
\* whose frame is present and lies in lo..hi, both ends included; an entry
\* without a frame is never returned; nothing is returned when lo > hi.
C21_InFrameRange ==
  Asked("in_frame_range") =>
    LET q == queried[1]
        lo == q.args[1]
        hi == q.args[2]
        es == log.entries
    IN /\ q.ret = At(es, {i \in 1..Len(es) : FrameIn(es[i], lo, hi)})
       /\ \A i \in 1..Len(es) :
            es[i].meta.frame = None => es[i] \notin Range(q.ret)
       /\ \A i \in 1..Len(es) :
            (es[i].meta.frame # None /\ es[i].meta.frame[1] \in {lo, hi}
               /\ lo <= hi) => es[i] \in Range(q.ret)
       /\ lo > hi => q.ret = <<>>

\* in_frame_range(2, 3) on a Log of frames 1, 2, 3 with a frame-less entry
\* among them returned the entries of frames 2 and 3, the upper end included
C21_Witness ==
  /\ Asked("in_frame_range")
  /\ queried[1].args = <<2, 3>>
  /\ Len(log.entries) = 3
  /\ log.entries[1].meta.frame = None
  /\ Len(queried[1].ret) = 2
  /\ queried[1].ret[2].meta.frame = Some(3)

\* C22: successes() and failures() partition the Log: every entry is returned
\* by exactly one of them, each returns its entries in append order, and
\* neither call changes the Log.
C22_SuccessesFailuresPartition ==
  /\ [](LET es == log.entries
            s == successes(log)
            f == failures(log)
        IN /\ s = At(es, {i \in 1..Len(es) : es[i].succeeded})
           /\ f = At(es, {i \in 1..Len(es) : ~es[i].succeeded})
           /\ Len(s) + Len(f) = Len(es)
           /\ \A i \in 1..Len(es) : es[i] \in Range(s) <=> es[i] \notin Range(f)
           /\ Asked("successes") =>
                queried[1].ret = At(es, {i \in 1..Len(es) : es[i].succeeded})
           /\ Asked("failures") =>
                queried[1].ret = At(es, {i \in 1..Len(es) : ~es[i].succeeded}))
  /\ [][queried' # queried => log' = log]_vars

\* failures() on the Log [success, failure, failure] returned the second and
\* the third entry, in that order
C22_Witness ==
  /\ Asked("failures")
  /\ Len(log.entries) = 3
  /\ log.entries[1].succeeded
  /\ queried[1].ret = <<log.entries[2], log.entries[3]>>
  /\ log.entries[2] # log.entries[3]

\* C23: get_by_id(id) returns an entry exactly when some entry of the Log has
\* that identity, and the entry returned has it; it returns none otherwise,
\* always on an empty Log; of several entries with the identity it returns
\* the earliest appended.
C23_GetById ==
  Asked("get_by_id") =>
    LET q == queried[1]
        id == q.args[1]
        hits == {i \in 1..Len(log.entries) : log.entries[i].meta.id = id}
    IN /\ q.ret # None <=> hits # {}
       /\ q.ret # None => /\ q.ret[1].meta.id = id
                          /\ q.ret[1] = log.entries[Min(hits)]
       /\ log.entries = <<>> => q.ret = None

\* two entries of the Log share the identity asked for, with different
\* commands: get_by_id returned the one appended first
C23_Witness ==
  /\ Asked("get_by_id")
  /\ \E i, j \in 1..Len(log.entries) :
       /\ i < j
       /\ log.entries[i].meta.id = queried[1].args[1]
       /\ log.entries[j].meta.id = queried[1].args[1]
       /\ log.entries[i].command # log.entries[j].command
       /\ queried[1].ret = Some(log.entries[i])


\* --------------------------------------- properties of auto-persistence
Lines(es) == [i \in 1..Len(es) |-> to_string(es[i])]
CallEntries(cs) == [i \in 1..Len(cs) |-> cs[i].entry]
Persisted == made.how = "with_persistence"
NoWriteFailed == \A i \in 1..Len(made.calls) : made.calls[i].ok
BackingFile == files[log.persist_path[1]]

\* C24: on a Log made by with_persistence over an absent or empty file, while
\* no write fails, each log_success / log_failure / append adds exactly one
\* line, the entry serialized, at the end of the backing file; the lines of
\* the file are then the entries of the Log, one to one and in order, and
\* load_from_file of the file gives these entries back.
C24_AutoPersistMirrorsLog ==
  /\ []((Persisted /\ made.base = <<>> /\ NoWriteFailed) =>
          /\ BackingFile.lines = Lines(log.entries)
          /\ log.entries # <<>> =>
               /\ BackingFile.exists
               /\ load_from_file(BackingFile, TRUE).status = "ok"
               /\ load_from_file(BackingFile, TRUE).log.entries = log.entries)
  /\ [][(Persisted /\ Len(made'.calls) = Len(made.calls) + 1
           /\ made'.calls[Len(made'.calls)].ok) =>
          files'[log.persist_path[1]].lines =
            Append(BackingFile.lines,
                   to_string(made'.calls[Len(made'.calls)].entry))]_vars

\* three appends to a persisted Log, none failed: three lines in the file,
\* and load_from_file has read them back
C24_Witness ==
  /\ Persisted /\ NoWriteFailed
  /\ Len(log.entries) = 3
  /\ Len(BackingFile.lines) = 3
  /\ log.entries[1] # log.entries[2]
  /\ loaded.status = "ok" /\ loaded.log.entries = log.entries

\* C25: a failed write to the backing file is swallowed: the Log holds the
\* entry of every append call, failed or not, in call order, and the file
\* holds, after what it held before, the lines of the calls whose write
\* succeeded, in call order, those after a failed one included.
C25_WriteFailureSwallowed ==
  Persisted =>
    /\ log.entries = CallEntries(made.calls)
    /\ BackingFile.lines =
         made.base \o Lines(CallEntries(SelectSeq(made.calls, LAMBDA c : c.ok)))

\* the write of the first append failed and that of the second did not: two
\* entries in the Log, the line of the second in the file
C25_Witness ==
  /\ Persisted
  /\ Len(made.calls) = 2
  /\ ~made.calls[1].ok /\ made.calls[2].ok
  /\ Len(log.entries) = 2
  /\ BackingFile.lines = <<to_string(log.entries[2])>>

\* C26: the Log that load_from_file returns has auto-persist off and no
\* path: an append to it, as to a Log made by new(), leaves every file as it
\* was, the file it was loaded from included.
C26_LoadedLogNotPersisted ==
  /\ [](/\ loaded.status = "ok" =>
             ~loaded.log.auto_persist /\ loaded.log.persist_path = None
        /\ made.how \in {"new", "load_from_file"} =>
             ~log.auto_persist /\ log.persist_path = None)
  /\ [][(made.how \in {"new", "load_from_file"}
           /\ Len(made'.calls) = Len(made.calls) + 1) =>
          /\ files' = files
          /\ log'.entries = Append(log.entries,
                                   made'.calls[Len(made'.calls)].entry)]_vars

\* a Log loaded from a file of two lines was appended to: three entries in
\* the Log, the two lines in the file
C26_Witness ==
  /\ made.how = "load_from_file"
  /\ Len(made.calls) = 1
  /\ Len(log.entries) = 3
  /\ \E p \in Paths :
       /\ files[p].exists
       /\ files[p].lines = Lines(SubSeq(log.entries, 1, 2))


\* ------------------------------------------ properties of save and load
\* C27: a save_to_file that succeeds leaves in the file one line per entry
\* of the Log, in order, and nothing else, whatever the file held before;
\* the Log is as it was.
C27_SaveOverwrites ==
  [][\A p \in Paths :
       (SaveToFile(p) /\ saved' = "ok") =>
         /\ files'[p] = [exists |-> TRUE, lines |-> Lines(log.entries)]
         /\ log' = log]_vars

\* a file of two lines, that load_from_file had read, was saved over with
\* the Log cleared: the file is there and has no line
C27_Witness ==
  /\ saved = "ok"
  /\ loaded.status = "ok" /\ Len(loaded.log.entries) = 2
  /\ log.entries = <<>>
  /\ \E p \in Paths : files[p] = [exists |-> TRUE, lines |-> <<>>]

HasBadLine(f) == \E i \in 1..Len(f.lines) : from_str(f.lines[i]) = None

\* C28: load_from_file of a missing file, of a file with a line that is not
\* a serialized entry, or of a file that cannot be read, returns an error and
\* no Log, never the entries before the bad line; it returns a Log only of a
\* file whose every line is an entry; save_to_file returns an error when the
\* file cannot be created or written.
C28_PersistenceErrorsSurfaced ==
  /\ \A p \in Paths :
       LET f == files[p]
       IN /\ (~f.exists \/ HasBadLine(f)) =>
               \A io_ok \in BOOLEAN :
                 load_from_file(f, io_ok) = [status |-> "err", log |-> LogNew]
          /\ load_from_file(f, FALSE).status = "err"
          /\ load_from_file(f, TRUE).status = "ok" =>
               Len(load_from_file(f, TRUE).log.entries) = Len(f.lines)
          /\ save_to_file(log, f, "create", 0).result = "err"
          /\ \A done \in 0..(Len(log.entries) - 1) :
               save_to_file(log, f, "write", done).result = "err"
  /\ loaded.status = "err" => loaded.log = LogNew

\* load_from_file returned an error for a file whose first line is an entry
\* and whose second is not, and save_to_file has returned an error
C28_Witness ==
  /\ loaded.status = "err"
  /\ saved = "err"
  /\ \E p \in Paths :
       /\ Len(files[p].lines) = 2
       /\ from_str(files[p].lines[1]) # None
       /\ from_str(files[p].lines[2]) = None


\* ------------------------------------------- properties of the app wiring
\* C29: the buses of two command kinds share nothing: each has the counter,
\* the frame and the queue that the calls on it gave it (its sends returned
\* 1, 2, ..., its length counts its own commands only), and a call on one
\* leaves the other as it was.
C29_KindsIndependent ==
  /\ [](/\ bus.next_id = 1 + Len(enq)
        /\ \A i \in 1..Len(enq) : enq[i].ret = i
        /\ bus.current_frame = lastSet
        /\ Tags(bus.queue) = Asc((1..Len(enq)) \ Gone)
        /\ \A i \in 1..Len(bus.queue) :
             /\ bus.queue[i].env.meta.id = bus.queue[i].tag
             /\ bus.queue[i].env.command = enq[bus.queue[i].tag].command
        /\ heal # None =>
             LET h == heal[1]
             IN /\ h.bus.next_id = 1 + Len(h.rets)
                /\ \A i \in 1..Len(h.rets) : h.rets[i] = i
                /\ h.bus.current_frame = h.lastSet
                /\ Len(h.bus.queue) = Len(h.rets) - h.gone
                /\ \A k \in 1..Len(h.bus.queue) :
                     /\ h.bus.queue[k].tag = h.gone + k
                     /\ h.bus.queue[k].env.meta.id = h.gone + k
                     /\ h.bus.queue[k].env.command \in
                          {HealTarget(a) : a \in Commands})
  /\ [][/\ heal' # heal => bus' = bus
        /\ bus' # bus => heal' = heal]_vars

\* both kinds were sent to, between each other's calls: the first send of
\* each returned 1, each bus holds one command of its kind and the frame set
\* on it
C29_Witness ==
  /\ heal # None
  /\ Len(enq) = 2 /\ enq[1].ret = 1
  /\ heal[1].rets = <<1, 2>>
  /\ Len(bus.queue) = 1 /\ bus.queue[1].env.meta.id = 2
  /\ Len(heal[1].bus.queue) = 1 /\ heal[1].bus.queue[1].env.meta.id = 2
  /\ bus.current_frame = FrameA /\ heal[1].bus.current_frame = FrameB
  /\ bus.queue[1].env.meta.frame = Some(0)
  /\ heal[1].bus.queue[1].env.meta.frame = Some(FrameB)

\* C30: FrameCount is 0 before the first update and k after k updates of an
\* app with CommandBusPlugin, whatever kinds are registered and whatever was
\* sent, drained or cleared in between.
C30_FrameCountCountsUpdates ==
  /\ frame_count = updates
  /\ updates = 0 => frame_count = FrameCountDefault

\* two updates of an app with two kinds registered and commands sent on
\* both buses: FrameCount is 2
C30_Witness ==
  /\ updates = 2 /\ frame_count = 2
  /\ heal # None /\ Len(heal[1].rets) >= 1
  /\ Len(enq) = 3


\* ------------------------------------- properties of send at full width
\* what send did when it returned: the identity returned is the counter as it
\* was, the queue has one more Envelope, at the tail, the Envelopes queued
\* before and the frame are as they were
SendEffect(last, b) ==
  /\ last.ret = Some(last.pre.next_id)
  /\ Len(b.queue) = Len(last.pre.queue) + 1
  /\ SubSeq(b.queue, 1, Len(last.pre.queue)) = last.pre.queue
  /\ b.queue[Len(b.queue)].command = last.command
  /\ b.queue[Len(b.queue)].meta.id = last.pre.next_id
  /\ b.current_frame = last.pre.current_frame

\* C31 as claimed: for every value of the 64-bit counter, send completes,
\* returns an identity, adds one Envelope at the tail and leaves the frame and
\* the queued Envelopes as they were.
C31_SendCannotFail ==
  (wide # None /\ wide.last # None) =>
    /\ ~wide.panicked
    /\ SendEffect(wide.last[1], wide.bus)

\* C31 as the code has it: send completes with that effect for every value
\* of the counter except u64::MAX in a build with overflow checks, where it
\* panics and leaves the bus as it was.
C31_SendFailsOnlyAtMax ==
  (wide # None /\ wide.last # None) =>
    LET last == wide.last[1]
    IN /\ wide.panicked <=>
            (last.pre.next_id = U64Max /\ wide.build = "overflow-checks")
       /\ ~wide.panicked => SendEffect(last, wide.bus)
       /\ wide.panicked => wide.bus = last.pre /\ last.ret = None

\* a build without overflow checks: the send at u64::MAX returned u64::MAX
\* and the counter is 0
C31_Witness ==
  /\ wide # None /\ wide.last # None
  /\ wide.build = "wrapping"
  /\ wide.last[1].ret = Some(U64Max)
  /\ wide.bus.next_id = U64(0)
  /\ Len(wide.bus.queue) = 2


\* ------------------------------ properties of validate and validate_all
\* C37: for every validator set and command, validate succeeds exactly when
\* validate_all returns no error, and the error of a failing validate is the
\* first of validate_all; a call asked again returns what it returned, and no
\* call changes the registered validators.
C37_ValidateAgreesWithValidateAll ==
  /\ [](/\ \A c \in TestValues :
             LET one == validate(validators, c).result
                 all == validate_all(validators, c).errors
             IN /\ one.ok <=> all = <<>>
                /\ ~one.ok => one.err = all[1]
        /\ (checked # None /\ checked[1].call = "validate") =>
             checked[1].ret = validate(validators, checked[1].command)
        /\ (checked # None /\ checked[1].call = "validate_all") =>
             checked[1].ret = validate_all(validators, checked[1].command))
  /\ [][(\E c \in TestValues : Validate(c) \/ ValidateAll(c)) =>
          validators' = validators]_vars

\* [even, positive] asked about -5 by validate: the error is that of the
\* even validator, the first of the two that validate_all returns
C37_Witness ==
  /\ validators = <<EvenValidator, PositiveValidator>>
  /\ checked # None /\ checked[1].call = "validate"
  /\ checked[1].command = NegValue
  /\ Len(validate_all(validators, NegValue).errors) = 2
  /\ checked[1].ret.result.err = validate_all(validators, NegValue).errors[1]
  /\ checked[1].ret.result.err.reason = "must be even"


\* ----------------------------------- properties of the per-tick system
\* C39: an update of the app changes FrameCount and not the frame of any
\* bus: the frame of each registered bus is the value last passed to its
\* set_frame (0 before any call) however many updates there were, and the
\* Envelopes of send carry the frame the bus had at the send, not FrameCount.
C39_TickLeavesBusFrames ==
  /\ [](/\ bus.current_frame = lastSet
        /\ heal # None => heal[1].bus.current_frame = heal[1].lastSet
        /\ \A i \in 1..Len(bus.queue) :
             bus.queue[i].env.meta.frame = Some(enq[bus.queue[i].tag].lastSet)
        /\ \A i \in 1..Len(out) :
             out[i].item.env.meta.frame = Some(enq[out[i].item.tag].lastSet))
  /\ [][updates' # updates =>
          /\ frame_count' = frame_count + 1
          /\ bus'.current_frame = bus.current_frame
          /\ bus'.next_id = bus.next_id
          /\ heal' = heal]_vars

\* after two updates, with no set_frame call on the bus of the first kind
\* and one on that of the second, a send on each: the Envelopes carry 0 and
\* the frame set, FrameCount is 2
C39_Witness ==
  /\ frame_count = 2
  /\ lastSet = 0 /\ bus.current_frame = 0
  /\ Len(bus.queue) = 1
  /\ bus.queue[1].env.meta.frame = Some(0)
  /\ heal # None /\ heal[1].bus.current_frame = FrameB
  /\ Len(heal[1].bus.queue) = 1
  /\ heal[1].bus.queue[1].env.meta.frame = Some(FrameB)


\* ------------------------------- properties of clear with auto-persist
Written(cs) == Lines(CallEntries(SelectSeq(cs, LAMBDA c : c.ok)))

\* C38: clear() of an auto-persisting Log empties the entries in memory and
\* leaves the backing file as it is: the file keeps the lines of the entries
\* appended before the clear, later appends add their lines after them, and
\* load_from_file of the file returns the entries from before the clear
\* followed by those after it, not the Log in memory.
C38_ClearKeepsBackingFile ==
  /\ [](Persisted =>
          /\ log.entries = CallEntries(made.calls)
          /\ BackingFile.lines =
               made.base \o Written(made.before) \o Written(made.calls)
          /\ (made.base = <<>> /\ BackingFile.exists
                /\ (\A i \in 1..Len(made.before) : made.before[i].ok)
                /\ NoWriteFailed) =>
               /\ load_from_file(BackingFile, TRUE).status = "ok"
               /\ load_from_file(BackingFile, TRUE).log.entries =
                    CallEntries(made.before) \o log.entries)
  /\ [][LogClear => files' = files /\ log'.entries = <<>>]_vars

\* two entries were appended and persisted, the Log was cleared, one more
\* was appended: three lines in the file, one entry in memory, and
\* load_from_file has returned the three
C38_Witness ==
  /\ Persisted
  /\ Len(made.before) = 2 /\ Len(made.calls) = 1
  /\ Len(log.entries) = 1
  /\ Len(BackingFile.lines) = 3
  /\ loaded.status = "ok"
  /\ loaded.log.entries = CallEntries(made.before) \o log.entries


\* --------------------------------------- properties of Execution Results
ExactlyOne(a, b, c) == (a /\ ~b /\ ~c) \/ (~a /\ b /\ ~c) \/ (~a /\ ~b /\ c)

\* C32: of is_success, is_failed and is_rejected exactly one is true of every
\* CommandResult, and ok() is the output exactly when is_success is true; the
\* event the executor builds with success(..) is_success and not is_failed,
\* the one it builds with failed(..) is_failed and not is_success, and id()
\* of either is the identity of the Metadata of the Envelope it was built
\* from.
C32_ResultsExclusive ==
  /\ inspected # None =>
       LET a == inspected[1]
       IN /\ ExactlyOne(a.is_success, a.is_failed, a.is_rejected)
          /\ a.is_success <=> a.result.kind = "Success"
          /\ a.is_failed <=> a.result.kind = "Failed"
          /\ a.is_rejected <=> a.result.kind = "Rejected"
          /\ a.ok # None <=> a.is_success
          /\ a.is_success => a.ok = Some(a.result.output)
  /\ Len(events) = Len(log.entries)
  /\ \A i \in 1..Len(events) :
       /\ executed_is_success(events[i]) <=> log.entries[i].succeeded
       /\ executed_is_failed(events[i]) <=> ~log.entries[i].succeeded
       /\ executed_is_success(events[i]) # executed_is_failed(events[i])
       /\ executed_id(events[i]) = out[i].item.env.meta.id

\* a Rejected result was asked about, with a success event and a failure
\* event written before
C32_Witness ==
  /\ inspected # None
  /\ inspected[1].is_rejected /\ inspected[1].ok = None
  /\ \E i, j \in 1..Len(events) :
       /\ executed_is_success(events[i]) /\ executed_id(events[i]) = 2
       /\ executed_is_failed(events[j]) /\ executed_id(events[j]) = 1


\* ------------------------------------------- properties of state machines
\* the After transitions out of the state the last update started in
AfterFrom(m) ==
  {i \in 1..Len(m.definition.transitions) :
     /\ m.definition.transitions[i].from = m.current_state
     /\ m.definition.transitions[i].condition.kind = "After"}

\* whether the last update returned a transition to state `to`
Took(to) == smLast.call[1].ret # None /\ smLast.call[1].ret[1].to = to

\* C33: when only update(delta) with a positive delta is called on a machine,
\* an After{s} transition out of its current state is taken by the first
\* update at which the time accumulated in the state is at least s: every
\* update that finds the time at or above s takes it.
C33_AfterFiresWhenDue ==
  (sm # None /\ smLast.call # None) =>
    LET c == smLast.call[1]
    IN \A i \in AfterFrom(c.pre) :
         LET t == c.pre.definition.transitions[i]
         IN c.pre.context.time_in_state + c.delta >= t.condition.seconds =>
              /\ Took(t.to)
              /\ sm[1].current_state = t.to

\* C33, as the code has it: the update takes the After{s} transition exactly
\* when the time is at or above s AND it looks at the automatic transitions
\* at all, which it does only when needs_update is set or the time in state
\* is below twice the delta.
C33_AfterFiresOnlyWhenEvaluated ==
  (sm # None /\ smLast.call # None) =>
    LET c == smLast.call[1]
        time == c.pre.context.time_in_state + c.delta
    IN \A i \in AfterFrom(c.pre) :
         LET t == c.pre.definition.transitions[i]
         IN Took(t.to) <=>
              /\ time >= t.condition.seconds
              /\ c.pre.needs_update \/ time < c.delta * 2

\* three updates of one unit each have left the timed machine in "idle" with
\* the time in state past the duration of its After transition
C33_Witness ==
  /\ sm # None /\ smLast.call # None
  /\ sm[1].definition = timed_machine
  /\ sm[1].current_state = "idle"
  /\ sm[1].context.time_in_state > AfterSeconds
  /\ smLast.call[1].delta = 1
  /\ smLast.call[1].ret = None

\* whether the definition has a state of that id
HasState(def, id) == \E i \in 1..Len(def.states) : def.states[i].id = id

TrueFrom(m, delta) ==
  {i \in 1..Len(m.definition.transitions) :
     /\ m.definition.transitions[i].from = m.current_state
     /\ evaluate(m.definition.transitions[i].condition,
                 add_time(m.context, delta))}

\* of those, the one of the highest priority, the first defined among equals
Preferred(m, delta) ==
  CHOOSE i \in TrueFrom(m, delta) :
    \A j \in TrueFrom(m, delta) :
      \/ m.definition.transitions[j].priority < m.definition.transitions[i].priority
      \/ /\ m.definition.transitions[j].priority = m.definition.transitions[i].priority
         /\ i <= j

\* whether update(m, delta) looks at the automatic transitions: no request
\* for an existing state is pending, and needs_update is set or the time in
\* the state is below twice the delta
Evaluates(m, delta) ==
  /\ m.manual_transition = None \/ ~HasState(m.definition, m.manual_transition[1])
  /\ m.needs_update \/ m.context.time_in_state + delta < delta * 2

C36_TimeInState ==
  /\ sm # None => sm[1].context.time_in_state = smLast.since
  /\ (sm # None /\ smLast.call # None) =>
       LET c == smLast.call[1]
       IN /\ c.ret # None =>
               /\ sm[1].context.time_in_state = 0
               /\ c.ret[1].time_in_previous = c.sum
               /\ c.ret[1].time_in_previous =
                    c.pre.context.time_in_state + c.delta
          /\ c.ret = None =>
               /\ sm[1].context.time_in_state =
                    c.pre.context.time_in_state + c.delta
               /\ sm[1].definition = c.pre.definition
               /\ sm[1].current_state = c.pre.current_state
               /\ sm[1].context.flags = c.pre.context.flags

\* as in transition_time_tracking: updates without a transition, then a
\* request, and the update that honours it returns the whole time
C36_Witness ==
  /\ sm # None /\ smLast.call # None
  /\ smLast.call[1].pre.definition = simple_machine
  /\ smLast.call[1].pre.manual_transition = Some("active")
  /\ smLast.call[1].pre.context.time_in_state = 3
  /\ smLast.call[1].delta = 1
  /\ smLast.call[1].ret = Some(StateTransition("idle", "active", 4))
  /\ sm[1].context.time_in_state = 0

=============================================================================
